---- MODULE Spec2Model ----
(***************************************************************************)
(* Model of the two .uasset decoders of tools/:                            *)
(*   UE4DataTableParser (tools/uasset_datatable_parser.py)  -- "dt"         *)
(*   UAssetReader       (tools/uasset_to_json.py)           -- "ur"         *)
(*                                                                         *)
(* Buffers are sequences of bytes (0..255); a cursor position is the       *)
(* 0-based Python index.  Strings are sequences of character codes.        *)
(* A read either returns a value and the new position or raises; a raise   *)
(* is the record [ok |-> FALSE, ...] and is propagated exactly where the   *)
(* Python code has no enclosing try.                                       *)
(*                                                                         *)
(* Integers of the model are 32 bits wide.  An unsigned 32-bit value       *)
(* u >= 2^31 is therefore carried as u - 2^32 (same bit pattern), and a    *)
(* 64-bit value as the pair [lo, hi] of its signed 32-bit halves.          *)
(***************************************************************************)
EXTENDS Integers, Sequences, FiniteSets, TLC

Min(a, b) == IF a <= b THEN a ELSE b

Max(a, b) == IF a >= b THEN a ELSE b

\* ------------------------------------------------------------ strings
sNone == <<78,111,110,101>>
sFoo == <<70,111,111>>
sItem == <<73,116,101,109>>
sBar == <<66,97,114>>
sHp == <<72,112>>
sVec == <<86,101,99>>
sMyEnum == <<77,121,69,110,117,109>>
sLtX == <<60,120>>
sIntProperty == <<73,110,116,80,114,111,112,101,114,116,121>>
sFloatProperty == <<70,108,111,97,116,80,114,111,112,101,114,116,121>>
sBoolProperty == <<66,111,111,108,80,114,111,112,101,114,116,121>>
sStrProperty == <<83,116,114,80,114,111,112,101,114,116,121>>
sNameProperty == <<78,97,109,101,80,114,111,112,101,114,116,121>>
sByteProperty == <<66,121,116,101,80,114,111,112,101,114,116,121>>
sEnumProperty == <<69,110,117,109,80,114,111,112,101,114,116,121>>
sArrayProperty == <<65,114,114,97,121,80,114,111,112,101,114,116,121>>
sStructProperty == <<83,116,114,117,99,116,80,114,111,112,101,114,116,121>>
sObjectProperty == <<79,98,106,101,99,116,80,114,111,112,101,114,116,121>>
sSoftObjectProperty == <<83,111,102,116,79,98,106,101,99,116,80,114,111,112,101,114,116,121>>
sZzProperty == <<90,122,80,114,111,112,101,114,116,121>>
sNamePrefix == <<60,110,97,109,101,95>>
sInvalid == <<60,105,110,118,97,108,105,100,62>>
sObjectPrefix == <<60,111,98,106,101,99,116,95>>
sStructType == <<95,115,116,114,117,99,116,95,116,121,112,101>>
sIndexKey == <<95,105,110,100,101,120>>
sRowNameKey == <<95,114,111,119,95,110,97,109,101>>
sBinaryPrefix == <<60,98,105,110,97,114,121,58>>
sColonColon == <<58,58>>

\* str.startswith for a one-character prefix
StartsWith(s, c) == Len(s) > 0 /\ s[1] = c

\* decimal digits of a natural number, as character codes (str(n))
RECURSIVE DecNat(_)
DecNat(n) == IF n < 10 THEN <<48 + n>> ELSE DecNat(n \div 10) \o <<48 + (n % 10)>>

\* str(n) of a signed integer
Dec(n) == IF n < 0 THEN <<45>> \o DecNat(-n) ELSE DecNat(n)

\* five decimal digits, zero padded
Pad5(n) == <<48 + ((n \div 10000) % 10), 48 + ((n \div 1000) % 10), 48 + ((n \div 100) % 10),
             48 + ((n \div 10) % 10), 48 + (n % 10)>>

\* str(u) of the unsigned 32-bit value whose bit pattern is the signed s:
\* for s < 0 the value is 2^32 + s = 4294967295 - m with m = -(s+1).
DecU32(s) ==
  IF s >= 0 THEN DecNat(s)
  ELSE LET m == -(s + 1)
           a == m \div 100000
           b == m % 100000
           lowp == 67295 - b
           hip == 42949 - a
       IN IF lowp >= 0 THEN DecNat(hip) \o Pad5(lowp)
          ELSE DecNat(hip - 1) \o Pad5(lowp + 100000)

HexDigit(d) == IF d < 10 THEN 48 + d ELSE 87 + d

\* bytes.hex()
Hex(bs) ==
  [i \in 1..(2 * Len(bs)) |-> IF i % 2 = 1 THEN HexDigit(bs[(i + 1) \div 2] \div 16)
                               ELSE HexDigit(bs[i \div 2] % 16)]

\* ------------------------------------------------------------ bytes
\* Python slice data[a:b] for 0 <= a
Slice(data, a, b) ==
  IF a >= Len(data) \/ b <= a THEN <<>> ELSE SubSeq(data, a + 1, Min(b, Len(data)))

\* a read that returned (val, pos)
Ret(v, p) == [ok |-> TRUE, val |-> v, pos |-> p]

\* a read that raised (struct.error, IndexError, ValueError)
Raise(kind) == [ok |-> FALSE, val |-> kind, pos |-> 0]

\* struct.unpack('<i', b) of four bytes
S32(b) ==
  LET u == b[1] + 256 * b[2] + 65536 * b[3]
  IN IF b[4] < 128 THEN u + 16777216 * b[4] ELSE u + 16777216 * (b[4] - 256)

\* struct.pack('<i', n); \div rounds towards minus infinity
Enc32(n) ==
  LET q == n \div 16777216
      low == n - 16777216 * q
  IN << low % 256, (low \div 256) % 256, (low \div 65536) % 256,
        IF q < 0 THEN q + 256 ELSE q >>

\* a 64-bit little-endian field holding the signed value n (|n| < 2^31)
Enc64(n) == Enc32(n) \o Enc32(IF n < 0 THEN -1 ELSE 0)

\* a 64-bit field made of two 32-bit halves (a name index and its number)
Enc64Pair(lo, hi) == Enc32(lo) \o Enc32(hi)

Zeros(n) == [i \in 1..n |-> 0]


\* ------------------------------------------------------------ values
\* Python values of the decoded tree, tagged by their Python type.
IntV(n) == [t |-> "int", v |-> n]

\* a float, kept as the bit pattern struct.unpack('<f') interprets
FloatV(bits) == [t |-> "float", v |-> bits]

BoolV(b) == [t |-> "bool", v |-> b]

StrV(s) == [t |-> "str", v |-> s]

ListV(l) == [t |-> "list", v |-> l]

\* a dict: its items <<key, value>> in insertion order
DictV(items) == [t |-> "dict", v |-> items]

\* the string f"<error:{e}>" made from a caught exception of the given kind
ErrV(kind) == [t |-> "error", v |-> kind]

DictHas(items, k) == \E i \in 1..Len(items) : items[i][1] = k

\* d[k] = v : an existing key keeps its place and gets the new value
DictSet(items, k, v) ==
  IF DictHas(items, k)
  THEN [i \in 1..Len(items) |-> IF items[i][1] = k THEN <<k, v>> ELSE items[i]]
  ELSE Append(items, <<k, v>>)

\* d.update(other) / {**d, **other}
\* the value of key k in the items of a dict that has it
DictGet(items, k) == items[CHOOSE i \in 1..Len(items) : items[i][1] = k][2]

\* d.update(other) / {**d, **other} for a dict other: the keys d has keep
\* their place and get the value of other, the new keys follow in the order
\* of other
DictUpdate(items, other) ==
  [i \in 1..Len(items) |-> IF DictHas(other, items[i][1])
                           THEN <<items[i][1], DictGet(other, items[i][1])>>
                           ELSE items[i]]
  \o SelectSeq(other, LAMBDA e : ~DictHas(items, e[1]))

\* a position or size at or beyond this value lies past the end of every buffer
FarPos == 1000000

\* ------------------------------------------------------------ UE4DataTableParser: cursor reads
DT_read_uint8(data, pos) ==
  IF pos < Len(data) THEN Ret(data[pos + 1], pos + 1) ELSE Raise("IndexError")

DT_read_int32(data, pos) ==
  IF pos + 4 <= Len(data) THEN Ret(S32(Slice(data, pos, pos + 4)), pos + 4)
  ELSE Raise("struct.error")

\* the unsigned value, carried with the bit pattern of the signed one
DT_read_uint32(data, pos) == DT_read_int32(data, pos)

DT_read_int64(data, pos) ==
  IF pos + 8 <= Len(data)
  THEN Ret([lo |-> S32(Slice(data, pos, pos + 4)), hi |-> S32(Slice(data, pos + 4, pos + 8))],
           pos + 8)
  ELSE Raise("struct.error")

DT_read_float(data, pos) ==
  IF pos + 4 <= Len(data) THEN Ret(S32(Slice(data, pos, pos + 4)), pos + 4)
  ELSE Raise("struct.error")

\* bytes.decode('utf-8', errors='replace'), for ASCII and for bytes that start
\* no valid sequence (each becomes U+FFFD)
Utf8Replace(bs) == [i \in 1..Len(bs) |-> IF bs[i] < 128 THEN bs[i] ELSE 65533]

\* bytes.decode('utf-8') (strict): the string, or a raise
Utf8Strict(bs) ==
  IF \A i \in 1..Len(bs) : bs[i] < 128 THEN [ok |-> TRUE, val |-> bs]
  ELSE [ok |-> FALSE, val |-> <<>>]

\* a decoder that takes the units as big-endian
Utf16Decode_be(bs) ==
  [ok |-> Len(bs) % 2 = 0,
   val |-> [i \in 1..(Len(bs) \div 2) |-> 256 * bs[2 * i - 1] + bs[2 * i]]]

\* bytes.decode('utf-16-le') of an even number of bytes without surrogates;
\* a surrogate code unit is reported as a decoding error
Utf16Decode(bs) ==
  LET n == Len(bs) \div 2
      unit(i) == bs[2 * i - 1] + 256 * bs[2 * i]
  IN IF (Len(bs) % 2 = 1) \/ (\E i \in 1..n : unit(i) >= 55296 /\ unit(i) <= 57343)
     THEN [ok |-> FALSE, val |-> <<>>]
     ELSE [ok |-> TRUE, val |-> [i \in 1..n |-> unit(i)]]

DT_read_fstring(data, pos) ==
  IF pos + 4 > Len(data) THEN Ret(<<>>, pos)
  ELSE LET length == S32(Slice(data, pos, pos + 4))
           p == pos + 4
       IN IF length = 0 THEN Ret(<<>>, p)
          ELSE IF length < 0
          THEN \* byte_length = -length * 2
               IF -(length + 1) >= Len(data) \/ p + (-length) * 2 > Len(data)
               THEN Ret(<<>>, p)
               ELSE LET d == Utf16Decode(Slice(data, p, p + (-length) * 2 - 2))
                    IN Ret(IF d.ok THEN d.val ELSE <<>>, p + (-length) * 2)
          ELSE IF length > Len(data) \/ p + length > Len(data)
               THEN Ret(<<>>, p)
               ELSE Ret(Utf8Replace(Slice(data, p, p + length - 1)), p + length)

\* a reader without the placeholder: an index out of range yields the empty string
DT_placeholder_empty(name_idx) == <<>>

\* f"<name_{name_idx}>"
DT_placeholder(name_idx) == sNamePrefix \o Dec(name_idx) \o <<62>>

\* a reader that appends the instance number itself: f"{name}_{name_num}"
DT_suffixed_raw(name, name_num) == name \o <<95>> \o Dec(name_num)

\* f"{name}_{name_num-1}"
DT_suffixed(name, name_num) == name \o <<95>> \o Dec(name_num - 1)

DT_read_fname(names, data, pos) ==
  IF pos + 8 > Len(data) THEN Ret(sInvalid, pos)
  ELSE LET name_idx == S32(Slice(data, pos, pos + 4))
           name_num == S32(Slice(data, pos + 4, pos + 8))
       IN IF 0 <= name_idx /\ name_idx < Len(names)
          THEN Ret(IF name_num > 0 THEN DT_suffixed(names[name_idx + 1], name_num)
                   ELSE names[name_idx + 1], pos + 8)
          ELSE Ret(DT_placeholder(name_idx), pos + 8)

\* index & 0xFFFFFFFF is the low half read as unsigned: it is below len(names)
\* only when the signed low half is non-negative
DT_get_name(names, index) ==
  IF 0 <= index.lo /\ index.lo < Len(names) THEN names[index.lo + 1]
  ELSE sNamePrefix \o DecU32(index.lo) \o <<62>>


\* ------------------------------------------------------------ UE4DataTableParser: properties
\* a limit that lets one more property through
max_props_more == 100 + 1

\* max_props, the safety limit of _read_properties
max_props == 100

\* the limit of the element loop of an ArrayProperty: range(min(count, 100))
array_limit == 100

\* an exception raised while the local variable pos had the value p
RaiseAt(kind, p) == [ok |-> FALSE, val |-> kind, pos |-> p]

\* int(prop_size) of a 64-bit pair: every negative size acts as -1 (only
\* size > 0 and max(size, 1) look at it), every size of 2^31 or more as FarPos
SizeOf(sz) ==
  IF sz.hi < 0 THEN -1
  ELSE IF sz.hi > 0 \/ sz.lo < 0 \/ sz.lo > FarPos THEN FarPos
  ELSE sz.lo

\* f"{prop_name}[{array_idx}]"
IndexedName(prop_name, array_idx) == prop_name \o <<91>> \o Dec(array_idx) \o <<93>>

\* a loop that does not stop at "None"
IsTerminator_lax(prop_name) == prop_name = <<>> \/ StartsWith(prop_name, 60)

\* the test that ends the property list: "None", "" or a "<...>" token
IsTerminator(prop_name) ==
  prop_name = sNone \/ prop_name = <<>> \/ StartsWith(prop_name, 60)

\* an element loop that stops one element early
ArrayIterations_short(count) == Min(count, array_limit) - 1

\* the number of elements an ArrayProperty decodes: min(count, 100)
ArrayIterations(count) == Min(count, array_limit)

\* a preview that keeps every byte
RawPreview_all(raw) == raw

\* raw[:32]
RawPreview(raw) == Slice(raw, 0, 32)

\* a skip that is one byte short
StructSkip_short == 17 - 1

\* the bytes skipped after the struct-type name of a StructProperty
StructSkip == 17

\* a resolver that is off by one: -class_idx
ImportIndexOf_off(class_idx) == [lo |-> -class_idx.lo, hi |-> -class_idx.hi - 1]

\* the import record a negative class index names: -class_idx - 1, as a 64-bit pair
ImportIndexOf(class_idx) == [lo |-> -class_idx.lo - 1, hi |-> -class_idx.hi - 1]

RECURSIVE DT_read_property_value(_, _, _, _, _)
RECURSIVE DT_props_run(_, _, _, _)
RECURSIVE DT_array_run(_, _, _, _, _)

\* the state of _read_properties: the dict, the position, and (for the
\* properties below) the number of properties decoded and why the loop ended:
\* "" (still looping), "None" (terminator), "invalid" ("" or "<...>" name),
\* "eof", "cap"
PropsDone(props, p, n, why) ==
  [ok |-> TRUE, val |-> props, pos |-> p, n |-> n, stop |-> why]

\* props[prop_name] = value, and pos after the value v was read
DT_store(st, key, v) == PropsDone(DictSet(st.val, key, v.val), v.pos, st.n + 1, "")

\* a terminator branch that leaves the cursor on the terminator
AfterTerminator_stay(pos, new_pos) == pos

\* pos = new_pos; break
AfterTerminator(pos, new_pos) == new_pos

\* one pass of the body of "for _ in range(max_props)"
DT_props_step(names, data, st) ==
  IF st.pos >= Len(data) - 8 THEN PropsDone(st.val, st.pos, st.n, "eof")
  ELSE LET nm == DT_read_fname(names, data, st.pos)
       IN IF IsTerminator(nm.val)
          THEN PropsDone(st.val, AfterTerminator(st.pos, nm.pos), st.n,
                         IF nm.val = sNone THEN "None" ELSE "invalid")
          ELSE LET ty == DT_read_fname(names, data, nm.pos)
                   sz == DT_read_int64(data, ty.pos)
                   ai == DT_read_int32(data, sz.pos)
               IN IF ~sz.ok THEN RaiseAt(sz.val, ty.pos)
                  ELSE IF ~ai.ok THEN RaiseAt(ai.val, sz.pos)
                  ELSE DT_store(st,
                                IF ai.val > 0 THEN IndexedName(nm.val, ai.val) ELSE nm.val,
                                DT_read_property_value(names, data, ai.pos, ty.val,
                                                       SizeOf(sz.val)))

\* `count` passes of the loop from state st, run as two halves; after a break
\* or a raise the remaining passes do nothing
DT_props_run(names, data, st, count) ==
  IF count <= 0 \/ ~st.ok \/ st.stop # "" THEN st
  ELSE IF count = 1 THEN DT_props_step(names, data, st)
  ELSE CHOOSE r \in { DT_props_run(names, data, mid, count - count \div 2) :
                      mid \in { DT_props_run(names, data, st, count \div 2) } } : TRUE

\* the loop ran out of passes without a break
DT_ran_out(r) == IF r.ok /\ r.stop = "" THEN PropsDone(r.val, r.pos, r.n, "cap") ELSE r

\* _read_properties: max_props passes at most
DT_read_properties(names, data, pos) ==
  CHOOSE r \in { DT_ran_out(st) :
                 st \in { DT_props_run(names, data, PropsDone(<<>>, pos, 0, ""),
                                       max_props) } } : TRUE

\* arr.append(elem), and pos after the element e was read
DT_append(st, e) == Ret(Append(st.val, e.val), e.pos)

\* return arr, pos
DT_list(r) == Ret(ListV(r.val), r.pos)

\* return {"_struct_type": struct_type, **struct_props}, pos; a raise of
\* _read_properties passes through with pos still at p
DT_struct(struct_type, p, sp) ==
  IF ~sp.ok THEN RaiseAt(sp.val, p)
  ELSE Ret(DictV(DictUpdate(<< <<sStructType, StrV(struct_type)>> >>, sp.val)), sp.pos)

\* `count` passes of "for _ in range(min(count, 100))" from the state st
\* (the list and the position), run as two halves; no pass raises, as
\* _read_property_value catches every exception of an element
DT_array_run(names, data, st, inner_type, count) ==
  IF count <= 0 \/ ~st.ok THEN st
  ELSE IF count = 1
  THEN DT_append(st, DT_read_property_value(names, data, st.pos, inner_type, 0))
  ELSE CHOOSE r \in { DT_array_run(names, data, mid, inner_type, count - count \div 2) :
                      mid \in { DT_array_run(names, data, st, inner_type, count \div 2) } } :
         TRUE

\* the body of the try of _read_property_value: a value, or the raise with
\* the value of pos at that moment
DT_value_body(names, data, pos, prop_type, size) ==
  IF prop_type = sIntProperty
  THEN LET x == DT_read_int32(data, pos)
       IN IF x.ok THEN Ret(IntV(x.val), x.pos) ELSE RaiseAt(x.val, pos)
  ELSE IF prop_type = sFloatProperty
  THEN LET x == DT_read_float(data, pos)
       IN IF x.ok THEN Ret(FloatV(x.val), x.pos) ELSE RaiseAt(x.val, pos)
  ELSE IF prop_type = sBoolProperty
  THEN LET x == DT_read_uint8(data, pos)
       IN IF x.ok THEN Ret(BoolV(x.val # 0), x.pos) ELSE RaiseAt(x.val, pos)
  ELSE IF prop_type = sStrProperty
  THEN LET x == DT_read_fstring(data, pos) IN Ret(StrV(x.val), x.pos)
  ELSE IF prop_type = sNameProperty
  THEN LET x == DT_read_fname(names, data, pos) IN Ret(StrV(x.val), x.pos)
  ELSE IF prop_type = sByteProperty
  THEN LET en == DT_read_fname(names, data, pos)
       IN IF en.val # sNone
          THEN LET m == DT_read_fname(names, data, en.pos)
               IN Ret(StrV(en.val \o sColonColon \o m.val), m.pos)
          ELSE LET x == DT_read_uint8(data, en.pos)
               IN IF x.ok THEN Ret(IntV(x.val), x.pos) ELSE RaiseAt(x.val, en.pos)
  ELSE IF prop_type = sEnumProperty
  THEN LET en == DT_read_fname(names, data, pos)
           m == DT_read_fname(names, data, en.pos)
       IN Ret(StrV(en.val \o sColonColon \o m.val), m.pos)
  ELSE IF prop_type = sArrayProperty
  THEN LET inner == DT_read_fname(names, data, pos)
           c == DT_read_int32(data, inner.pos + 1)
       IN IF ~c.ok THEN RaiseAt(c.val, inner.pos + 1)
          ELSE CHOOSE r \in
                 { DT_list(arr) :
                   arr \in { DT_array_run(names, data, Ret(<<>>, c.pos), inner.val,
                                          ArrayIterations(c.val)) } } : TRUE
  ELSE IF prop_type = sStructProperty
  THEN LET st == DT_read_fname(names, data, pos)
       IN CHOOSE r \in { DT_struct(st.val, st.pos + StructSkip, sp) :
                         sp \in { DT_read_properties(names, data, st.pos + StructSkip) } } :
            TRUE
  ELSE IF prop_type = sObjectProperty \/ prop_type = sSoftObjectProperty
  THEN LET x == DT_read_int32(data, pos)
       IN IF x.ok THEN Ret(StrV(sObjectPrefix \o Dec(x.val) \o <<62>>), x.pos)
          ELSE RaiseAt(x.val, pos)
  ELSE IF size > 0
  THEN Ret(StrV(<<60>> \o prop_type \o <<58>>
                \o Hex(RawPreview(Slice(data, pos, pos + size))) \o <<62>>), pos + size)
  ELSE Ret(StrV(<<60>> \o prop_type \o <<62>>), pos)

\* except Exception as e: return f"<error:{e}>", pos + max(size, 1)
DT_caught(r, size) == IF r.ok THEN r ELSE Ret(ErrV(r.val), r.pos + Max(size, 1))

\* _read_property_value
DT_read_property_value(names, data, pos, prop_type, size) ==
  CHOOSE v \in { DT_caught(r, size) :
                 r \in { DT_value_body(names, data, pos, prop_type, size) } } : TRUE


\* ------------------------------------------------------------ UE4DataTableParser: header and tables
\* another tag: the one the packages with a wrong tag carry
PACKAGE_FILE_TAG_other == S32(<<193, 131, 42, 0>>)

\* PACKAGE_FILE_TAG = 0x9E2A83C1, as the bit pattern struct.unpack('<I') returns
PACKAGE_FILE_TAG == S32(<<193, 131, 42, 158>>)

\* an unsigned header field used as a position or count: 2^31 and more is
\* past the end of every buffer
AsPos(u) == IF u < 0 \/ u > FarPos THEN FarPos ELSE u

\* n consecutive 32-bit reads from pos: the values, or the raise of the first
\* read that does not fit
RECURSIVE DT_read_ints(_, _, _, _)
DT_read_ints(data, pos, n, acc) ==
  IF n = 0 THEN Ret(acc, pos)
  ELSE LET x == DT_read_int32(data, pos)
       IN IF x.ok THEN DT_read_ints(data, x.pos, n - 1, Append(acc, x.val)) ELSE x

\* _parse_header: the header dict together with the offsets it stores on self
DT_parse_header(data) ==
  LET magic == DT_read_uint32(data, 0)
      ver == DT_read_ints(data, 4, 6, <<>>)
         \* legacy, ue3, ue4, ue5, licensee, custom_version_count
      p1 == ver.pos + 20 * Max(0, Min(ver.val[6], FarPos))
      ths == DT_read_uint32(data, p1)
      folder == DT_read_fstring(data, ths.pos)
      f == DT_read_ints(data, folder.pos, 16, <<>>)
         \* package_flags, name_count, name_offset, soft_obj_count, soft_obj_offset,
         \* gather_count, gather_offset, export_count, export_offset, import_count,
         \* import_offset, depends_offset, soft_pkg_count, soft_pkg_offset,
         \* searchable_offset, thumbnail_offset
      gen == DT_read_uint32(data, f.pos + 16)
  IN IF ~magic.ok THEN magic
     ELSE IF magic.val # PACKAGE_FILE_TAG THEN Raise("ValueError")
     ELSE IF ~ver.ok THEN ver
     ELSE IF ~ths.ok THEN ths
     ELSE IF ~f.ok THEN f
     ELSE IF ~gen.ok THEN gen
     ELSE Ret([file_version_ue4 |-> ver.val[3], name_count |-> f.val[2],
               export_count |-> f.val[8], import_count |-> f.val[10],
               name_offset |-> AsPos(f.val[3]), export_offset |-> AsPos(f.val[9]),
               import_offset |-> AsPos(f.val[11]), total_header_size |-> ths.val], 0)

\* a reader that takes the hash for the next entry
DT_skip_hash_not(data, pos) == pos

\* the 4-byte hash after a name is skipped when it fits
DT_skip_hash(data, pos) == IF pos + 4 <= Len(data) THEN pos + 4 ELSE pos

\* _parse_name_table: names are read until the import offset, the end of the
\* data or an empty name
RECURSIVE DT_parse_name_table(_, _, _, _)
DT_parse_name_table(data, pos, import_offset, names) ==
  IF ~(pos < import_offset /\ pos < Len(data) - 4) THEN names
  ELSE LET nm == DT_read_fstring(data, pos)
       IN IF nm.val = <<>> THEN names
          ELSE DT_parse_name_table(data, DT_skip_hash(data, nm.pos), import_offset,
                                   Append(names, nm.val))

\* _parse_import_table
RECURSIVE DT_parse_import_table(_, _, _, _, _)
DT_parse_import_table(names, data, pos, export_offset, imports) ==
  IF ~(pos < export_offset /\ pos < Len(data) - 32) THEN imports
  ELSE LET class_package == DT_read_int64(data, pos)
           class_name == DT_read_int64(data, pos + 8)
           object_name == DT_read_int64(data, pos + 20)
           p == IF pos + 28 + 4 <= Len(data) THEN pos + 32 ELSE pos + 28
       IN DT_parse_import_table(names, data, p, export_offset,
            Append(imports, [class_package |-> DT_get_name(names, class_package.val),
                             class_name |-> DT_get_name(names, class_name.val),
                             object_name |-> DT_get_name(names, object_name.val)]))

\* serial_size <= 0 of a 64-bit pair
NotPositive(x) == x.hi < 0 \/ (x.hi = 0 /\ x.lo = 0)

\* a class name that is set to a marker ("?") before the class is resolved
NoClassName_marker == <<63>>

\* class_name = "", before the class is resolved
NoClassName == <<>>

\* class name of an export: the object name of import -class_idx - 1
ClassNameOf(imports, class_idx) ==
  IF class_idx.hi < 0
  THEN LET imp_idx == ImportIndexOf(class_idx)
       IN IF imp_idx.hi = 0 /\ imp_idx.lo >= 0 /\ imp_idx.lo < Len(imports)
          THEN imports[imp_idx.lo + 1].object_name
          ELSE NoClassName
  ELSE NoClassName

\* the bytes of one export record that _parse_export_table reads or skips
DT_EXPORT_RECORD == 96

\* _parse_export_table: records are read to the end of the data or to the
\* first one with serial_size <= 0; a record that does not fit is dropped
RECURSIVE DT_parse_export_table(_, _, _, _, _)
DT_parse_export_table(names, imports, data, pos, exports) ==
  IF ~(pos < Len(data) - 64) THEN exports
  ELSE IF pos + 92 > Len(data) THEN exports   \* a read raised: except: break
  ELSE LET class_idx == DT_read_int64(data, pos).val
           object_name == DT_read_int64(data, pos + 24).val
           serial_size == DT_read_int64(data, pos + 36).val
           serial_offset == DT_read_int64(data, pos + 44).val
           e == [object_name |-> DT_get_name(names, object_name),
                 class_name |-> ClassNameOf(imports, class_idx),
                 serial_size |-> serial_size, serial_offset |-> serial_offset]
       IN IF NotPositive(serial_size) THEN Append(exports, e)
          ELSE DT_parse_export_table(names, imports, data, pos + DT_EXPORT_RECORD,
                                     Append(exports, e))


\* ------------------------------------------------------------ UE4DataTableParser: rows
\* the row _parse_datatable_alternative makes of a name and the properties
\* read after it, if there are any ("if props:"; a raise is passed over)
DT_candidate(row_name, pr) ==
  [found |-> pr.ok /\ pr.val # <<>>, row_name |-> row_name,
   props |-> IF pr.ok THEN pr.val ELSE <<>>]

\* one pass of the loop of _parse_datatable_alternative at offset pos: the
\* first four bytes must index a usable name
DT_try_offset(names, data, pos) ==
  LET name_idx == S32(Slice(data, pos, pos + 4))
  IN IF /\ 0 <= name_idx /\ name_idx < Len(names)
        /\ names[name_idx + 1] # <<>> /\ names[name_idx + 1] # sNone
        /\ ~StartsWith(names[name_idx + 1], 47)
     THEN DT_candidate(names[name_idx + 1], DT_read_properties(names, data, pos + 8))
     ELSE [found |-> FALSE, row_name |-> <<>>, props |-> <<>>]

\* the rows appended for the offsets that yielded one; row_id counts them
DT_found_rows(hits) ==
  [row_id \in 1..Len(hits) |->
     DictV(DictUpdate(<< <<sIndexKey, IntV(row_id - 1)>>,
                         <<sRowNameKey, StrV(hits[row_id].row_name)>> >>,
                      hits[row_id].props))]

\* _parse_datatable_alternative: every offset pos < len(data) - 16 is tried
\* in turn (pos += 1)
DT_parse_datatable_alternative(names, data) ==
  DT_found_rows(SelectSeq([i \in 1..Max(0, Len(data) - 16) |->
                             DT_try_offset(names, data, i - 1)],
                          LAMBDA c : c.found))

\* the position after the leading all-zero words
RECURSIVE SkipZeroWords(_, _)
SkipZeroWords(data, pos) ==
  IF pos < Len(data) - 4 /\ Slice(data, pos, pos + 4) = <<0, 0, 0, 0>>
  THEN SkipZeroWords(data, pos + 4) ELSE pos

\* what _parse_datatable_content hands back: rows is its return value; fallback
\* tells that the except branch replaced the rows by the alternative parse;
\* decoded are the rows the row loop had appended, and trace the count, stop
\* reason and end position of each property list it read (kept for the
\* properties below, not part of the Python result)
ContentResult(rs, fb, dec, tr) ==
  [rows |-> rs, fallback |-> fb, decoded |-> dec, trace |-> tr]

RECURSIVE DT_row_loop(_, _, _, _)

\* the state of the row loop: the rows appended, the trace, the position, the
\* loop variable i, and why the loop ended: "" (still looping), "eof" (the
\* break of the loop) or "raise" (an exception left the loop)
RowState(rows, trace, pos, i, why) ==
  [rows |-> rows, trace |-> trace, pos |-> pos, i |-> i, stop |-> why]

\* row.update(props); rows.append(row) for the properties pr read after the
\* row name; a raise of _read_properties ends the try
DT_row_append(st, row_name, pr) ==
  IF ~pr.ok THEN RowState(st.rows, st.trace, st.pos, st.i, "raise")
  ELSE RowState(Append(st.rows, DictV(DictUpdate(<< <<sIndexKey, IntV(st.i)>>,
                                                    <<sRowNameKey, StrV(row_name.val)>> >>,
                                                 pr.val))),
                Append(st.trace, [n |-> pr.n, stop |-> pr.stop, start |-> row_name.pos,
                                  pos |-> pr.pos]),
                pr.pos, st.i + 1, "")

\* props, pos = self._read_properties(data, pos) after the row name
DT_row_props(names, data, st, row_name) ==
  CHOOSE r \in { DT_row_append(st, row_name, pr) :
                 pr \in { DT_read_properties(names, data, row_name.pos) } } : TRUE

\* one pass of the body of "for i in range(row_count)"
DT_row_step(names, data, st) ==
  IF st.pos >= Len(data) - 8 THEN RowState(st.rows, st.trace, st.pos, st.i, "eof")
  ELSE DT_row_props(names, data, st, DT_read_fname(names, data, st.pos))

\* `count` passes of the row loop from state st, run as two halves; after a
\* break or a raise the remaining passes do nothing
DT_row_loop(names, data, st, count) ==
  IF count <= 0 \/ st.stop # "" THEN st
  ELSE IF count = 1 THEN DT_row_step(names, data, st)
  ELSE CHOOSE r \in { DT_row_loop(names, data, mid, count - count \div 2) :
                      mid \in { DT_row_loop(names, data, st, count \div 2) } } : TRUE

\* return rows, or the except branch: rows = self._parse_datatable_alternative(data)
DT_rows_result(names, data, st) ==
  IF st.stop = "raise"
  THEN ContentResult(DT_parse_datatable_alternative(names, data), TRUE, st.rows, st.trace)
  ELSE ContentResult(st.rows, FALSE, st.rows, st.trace)

\* a sanity bound that turns away one more row count
MAX_ROW_COUNT_low == 10000 - 1

\* the sanity bound of the row count: 0 < row_count < 10000
MAX_ROW_COUNT == 10000

\* _parse_datatable_content
DT_parse_datatable_content(names, data) ==
  IF Len(data) < 4 THEN ContentResult(<<>>, FALSE, <<>>, <<>>)
  ELSE LET p0 == SkipZeroWords(data, 0)
           row_count == DT_read_int32(data, p0)
       IN IF ~row_count.ok
          THEN ContentResult(DT_parse_datatable_alternative(names, data),
                             TRUE, <<>>, <<>>)
          ELSE IF 0 < row_count.val /\ row_count.val < MAX_ROW_COUNT
          THEN CHOOSE c \in
                 { DT_rows_result(names, data, st) :
                   st \in { DT_row_loop(names, data,
                                        RowState(<<>>, <<>>, row_count.pos, 0, ""),
                                        row_count.val) } } : TRUE
          ELSE ContentResult(<<>>, FALSE, <<>>, <<>>)


\* ------------------------------------------------------------ input buffers
\* The inputs are built from a description (a scenario) by the encoders
\* below, which write the layout the parsers read, and are then cut or
\* corrupted; the parsers only ever see the bytes.

\* an FString: length including the NUL, the ASCII bytes, the NUL
EncFString(str) == IF str = <<>> THEN Enc32(0) ELSE Enc32(Len(str) + 1) \o str \o <<0>>

\* an FString stored as UTF-16: negative length, two bytes per unit, a NUL unit
EncFString16(str) ==
  Enc32(-(Len(str) + 1)) \o
  [i \in 1..(2 * Len(str)) |-> IF i % 2 = 1 THEN str[(i + 1) \div 2] ELSE 0] \o <<0, 0>>

\* a name-table entry: the string and its 4-byte hash
EncNameEntry(str) == EncFString(str) \o <<170, 187, 204, 221>>

RECURSIVE EncNameTable(_)
EncNameTable(names) ==
  IF names = <<>> THEN <<>> ELSE EncNameEntry(Head(names)) \o EncNameTable(Tail(names))

\* an FName: name index and instance number
EncFName(idx, num) == Enc32(idx) \o Enc32(num)

\* an import record of `stride` bytes (28, or 32 with the trailing field)
EncImport(im, stride) ==
  EncFName(im.class_package, 0) \o EncFName(im.class_name, 0) \o Enc32(im.outer_index)
  \o EncFName(im.object_name, im.object_num) \o Zeros(stride - 28)

RECURSIVE EncImports(_, _)
EncImports(ims, stride) ==
  IF ims = <<>> THEN <<>> ELSE EncImport(Head(ims), stride) \o EncImports(Tail(ims), stride)

\* an export record: 96 bytes, and 8 more (the public export hash) when
\* `hash8` and the serial size is positive
EncExport(ex, hash8) ==
  Enc64(ex.class_index) \o Enc64(0) \o Enc32(0) \o Enc32(0)
  \o EncFName(ex.object_name, ex.object_num) \o Enc32(0)
  \o Enc64(ex.serial_size) \o Enc64(ex.serial_offset)
  \o Enc32(0) \o Enc32(0) \o Enc32(0) \o Zeros(16) \o Enc32(0)
  \o Enc32(0) \o Enc32(1) \o Enc32(0)
  \o (IF hash8 /\ ex.serial_size > 0 THEN Zeros(8) ELSE <<>>)

RECURSIVE EncExports(_, _)
EncExports(exs, hash8) ==
  IF exs = <<>> THEN <<>> ELSE EncExport(Head(exs), hash8) \o EncExports(Tail(exs), hash8)

sFolder == <<78,111,110,101>>

\* the bytes of the summary up to the name table, for a description h:
\* 28 + 4 + 9 + 4 + 16 + (4 with a localization id) + 8 + 52 + 4 + 8 + 24
HeaderLen(h) == 157 + (IF h.loc THEN 4 ELSE 0)

\* the package summary; the tables follow it in the order names, imports,
\* exports, and the declared offsets point at them
EncHeader(h, name_offset, import_offset, export_offset) ==
  (IF h.magicOk THEN <<193, 131, 42, 158>> ELSE <<193, 131, 42, 0>>)
  \o Enc32(-7) \o Enc32(864) \o Enc32(h.ue4) \o Enc32(0) \o Enc32(0)
  \o Enc32(0)                                  \* custom_version_count
  \o Enc32(export_offset)                      \* total_header_size
  \o EncFString(sFolder)
  \o Enc32(0)                                  \* package_flags
  \o Enc32(h.name_count) \o Enc32(name_offset)
  \o Enc32(0) \o Enc32(0)                      \* soft object paths
  \o (IF h.loc THEN EncFString(<<>>) ELSE <<>>) \* localization id
  \o Enc32(0) \o Enc32(0)                      \* gatherable text
  \o Enc32(h.export_count) \o Enc32(export_offset)
  \o Enc32(h.import_count) \o Enc32(import_offset)
  \o Enc32(0) \o Enc32(0) \o Enc32(0) \o Enc32(0) \o Enc32(0)
  \o Zeros(16)                                 \* guid
  \o Enc32(1) \o Enc32(h.export_count) \o Enc32(h.name_count)   \* one generation
  \o Zeros(24)                                 \* engine versions

\* the header buffer (.uasset) of a description h, cut to h.cut bytes when
\* h.cut is not negative
EncPackage(h) ==
  LET nt == EncNameTable(h.names)
      it == EncImports(h.imports, h.stride)
      et == EncExports(h.exports, h.hash8)
      name_offset == HeaderLen(h)
      import_offset == name_offset + Len(nt)
      export_offset == import_offset + Len(it)
      full == EncHeader(h, name_offset, import_offset, export_offset)
              \o nt \o it \o et \o Zeros(h.tail)
  IN IF h.cut < 0 THEN full ELSE SubSeq(full, 1, Min(h.cut, Len(full)))


\* ------------------------------------------------------------ UAssetReader
\* _read_int32 / _read_uint32 at self.pos: struct.unpack raises on a short slice
UR_read_int32(data, pos) ==
  IF pos + 4 <= Len(data) THEN Ret(S32(Slice(data, pos, pos + 4)), pos + 4)
  ELSE Raise("struct.error")

UR_read_int64(data, pos) ==
  IF pos + 8 <= Len(data)
  THEN Ret([lo |-> S32(Slice(data, pos, pos + 4)), hi |-> S32(Slice(data, pos + 4, pos + 8))],
           pos + 8)
  ELSE Raise("struct.error")

RECURSIVE UR_read_ints(_, _, _, _)
UR_read_ints(data, pos, n, acc) ==
  IF n = 0 THEN Ret(acc, pos)
  ELSE LET x == UR_read_int32(data, pos)
       IN IF x.ok THEN UR_read_ints(data, x.pos, n - 1, Append(acc, x.val)) ELSE x

\* f"<binary:{bytes.hex()}>"
BinaryToken(bs) == sBinaryPrefix \o Hex(bs) \o <<62>>

\* _read_fstring: no bounds check; a slice past the end is just shorter
UR_read_fstring(data, pos) ==
  LET len32 == UR_read_int32(data, pos)
      length == len32.val
      p == len32.pos
  IN IF ~len32.ok THEN len32
     ELSE IF length = 0 THEN Ret(<<>>, p)
     ELSE IF length < 0
     THEN LET bl == IF -(length + 1) >= FarPos THEN FarPos ELSE (-length) * 2
              d == Utf16Decode(Slice(data, p, p + bl - 2))
          IN Ret(IF d.ok THEN d.val ELSE BinaryToken(Slice(data, p, p + bl)), p + bl)
     ELSE LET l == Min(length, FarPos)
              d == Utf8Strict(Slice(data, p, p + l - 1))
          IN Ret(IF d.ok THEN d.val ELSE BinaryToken(Slice(data, p, p + l)), p + l)

\* the custom versions loop: a 16-byte guid and a 32-bit version each
RECURSIVE UR_custom_versions(_, _, _)
UR_custom_versions(data, pos, n) ==
  IF n <= 0 THEN Ret(<<>>, pos)
  ELSE LET v == UR_read_int32(data, pos + 16)
       IN IF v.ok THEN UR_custom_versions(data, v.pos, n - 1) ELSE v

\* the first file version that stores a localization id
VER_LOCALIZATION_ID == 516

\* The reads of _read_header in their order: each takes the state st left by
\* the one before (the values read so far and self.pos) and passes a raise on.

\* the values so far with the position after the read r, or the raise of r
UR_at(vals, r) == IF r.ok THEN Ret(vals, r.pos) ELSE r

\* n more 32-bit fields
UR_then_ints(data, st, n) == IF st.ok THEN UR_read_ints(data, st.pos, n, st.val) ELSE st

\* self.pos += n
UR_then_skip(st, n) == IF st.ok THEN Ret(st.val, st.pos + n) ELSE st

\* folder_name = self._read_fstring()
UR_then_fstring(data, st) ==
  IF ~st.ok THEN st
  ELSE LET r == UR_read_fstring(data, st.pos)
       IN IF r.ok THEN Ret(Append(st.val, r.val), r.pos) ELSE r

\* the custom versions loop over custom_version_count, the 6th field
UR_then_custom_versions(data, st) ==
  IF st.ok THEN UR_at(st.val, UR_custom_versions(data, st.pos, st.val[6])) ELSE st

\* localization_id = self._read_fstring() if file_version_ue4 >= 516 else ""
UR_then_localization_id(data, st) ==
  IF st.ok /\ st.val[3] >= VER_LOCALIZATION_ID
  THEN UR_at(st.val, UR_read_fstring(data, st.pos))
  ELSE st

\* the generations loop over gen_count, the field read last
UR_then_generations(data, st) ==
  IF st.ok
  THEN UR_at(st.val, UR_read_ints(data, st.pos, 2 * AsPos(st.val[Len(st.val)]), <<>>))
  ELSE st

\* the dict _read_header returns, from the fields in the order they were read:
\* 1..6 the versions and custom_version_count, 7 total_header_size, 8
\* folder_name, 9..11 package_flags, name_count, name_offset, 12..20
\* export_count, export_offset, import_count, import_offset and five more
\* offsets, 21 gen_count
UR_header_dict(st) ==
  IF ~st.ok THEN st
  ELSE Ret([file_version_ue4 |-> st.val[3], folder_name |-> st.val[8],
            package_flags |-> st.val[9],
            name_count |-> AsPos(st.val[10]), name_offset |-> AsPos(st.val[11]),
            export_count |-> AsPos(st.val[12]), export_offset |-> AsPos(st.val[13]),
            import_count |-> AsPos(st.val[14]), import_offset |-> AsPos(st.val[15])],
           st.pos)

\* magic = self._read_uint32(); if magic != self.PACKAGE_FILE_TAG: raise ValueError
UR_header_checked(magic, h) ==
  IF ~magic.ok THEN magic
  ELSE IF magic.val # PACKAGE_FILE_TAG THEN Raise("ValueError")
  ELSE h

\* _read_header
UR_read_header(data) ==
  UR_header_checked(
    UR_read_int32(data, 0),
    UR_header_dict(
      UR_then_generations(data,
        UR_then_ints(data,
          UR_then_skip(
            UR_then_ints(data,
              UR_then_skip(
                UR_then_localization_id(data,
                  UR_then_skip(
                    UR_then_ints(data,
                      UR_then_fstring(data,
                        UR_then_ints(data,
                          UR_then_custom_versions(data, UR_read_ints(data, 4, 6, <<>>)),
                          1)),
                      3),
                    8)),
                8),
              9),
            16),
          1))))

\* _read_names: the loop "for _ in range(name_count)" with n names to go; a
\* raise leaves the names appended so far in self.names
RECURSIVE UR_read_names(_, _, _, _)
UR_read_names(data, pos, n, names) ==
  IF n <= 0 THEN [ok |-> TRUE, val |-> names, pos |-> pos]
  ELSE LET nm == UR_read_fstring(data, pos)
       IN IF ~nm.ok THEN [ok |-> FALSE, val |-> names, pos |-> pos]
          ELSE UR_read_names(data, IF nm.pos + 4 <= Len(data) THEN nm.pos + 4 ELSE nm.pos,
                             n - 1, Append(names, nm.val))

\* _get_name: idx = index & 0xFFFFFFFF
UR_get_name(names, index) ==
  IF 0 <= index.lo /\ index.lo < Len(names) THEN names[index.lo + 1]
  ELSE sNamePrefix \o DecU32(index.lo) \o <<62>>

\* self._get_name(x) if x >= 0 else ""
UR_name_or_empty(names, x) == IF x.hi >= 0 THEN UR_get_name(names, x) ELSE <<>>

\* _read_imports
RECURSIVE UR_read_imports(_, _, _, _, _)
UR_read_imports(names, data, pos, n, imports) ==
  IF n <= 0 THEN [ok |-> TRUE, val |-> imports, pos |-> pos]
  ELSE IF pos + 28 > Len(data) THEN [ok |-> FALSE, val |-> imports, pos |-> pos]
  ELSE LET class_package == UR_read_int64(data, pos).val
           class_name == UR_read_int64(data, pos + 8).val
           outer_index == UR_read_int32(data, pos + 16).val
           object_name == UR_read_int64(data, pos + 20).val
       IN UR_read_imports(names, data, pos + 28, n - 1,
            Append(imports, [class_package |-> UR_name_or_empty(names, class_package),
                             class_name |-> UR_name_or_empty(names, class_name),
                             outer_index |-> outer_index,
                             object_name |-> UR_name_or_empty(names, object_name)]))


\* x > 0 of a 64-bit pair
Positive(x) == x.hi > 0 \/ (x.hi = 0 /\ x.lo # 0)

\* a positive 64-bit pair as a position or size
AsPos64(x) == IF x.hi > 0 \/ x.lo < 0 \/ x.lo > FarPos THEN FarPos ELSE x.lo

\* printable ASCII, the test 32 <= byte < 127
Printable(b) == 32 <= b /\ b < 127

\* the index after the run of printable bytes that starts at index a
RECURSIVE RunEnd(_, _)
RunEnd(data, a) ==
  IF a <= Len(data) /\ Printable(data[a]) THEN RunEnd(data, a + 1) ELSE a

\* the first scan: `current` collects printable bytes and is appended to
\* `strings` when another byte ends it with at least 4 of them.  The result
\* is the set of those runs; with atEnd, the run the data ends in counts too
\* (the test after the loop).
PrintableRuns(data, atEnd) ==
  LET starts == { a \in 1..Len(data) :
                    Printable(data[a]) /\ (a = 1 \/ ~Printable(data[a - 1])) }
  IN { SubSeq(data, a, RunEnd(data, a) - 1) :
         a \in { s \in starts : /\ RunEnd(data, s) - s >= 4
                                /\ (atEnd \/ RunEnd(data, s) <= Len(data)) } }

\* c.isprintable() or c.isspace() for an ASCII character
PrintableOrSpace(c) == (32 <= c /\ c < 127) \/ (9 <= c /\ c <= 13) \/ (28 <= c /\ c <= 31)

\* bytes.decode('utf-8', errors='ignore') for ASCII and stray bytes
Utf8Ignore(bs) == SelectSeq(bs, LAMBDA c : c < 128)

\* the second scan of _extract_strings_from_bytes: the length-prefixed
\* strings found at the offsets pos < len(data) - 4
PrefixedStrings(data) ==
  LET length(pos) == S32(Slice(data, pos, pos + 4))
      str(pos) == Utf8Ignore(Slice(data, pos + 4, pos + 4 + length(pos) - 1))
      take(pos) == /\ 1 < length(pos) /\ length(pos) < 256
                   /\ pos + 4 + length(pos) <= Len(data)
                   /\ Len(str(pos)) >= 3
                   /\ \A i \in 1..Len(str(pos)) : PrintableOrSpace(str(pos)[i])
  IN { str(pos) : pos \in { q \in 0..(Len(data) - 5) : take(q) } }

\* _extract_strings_from_bytes: list(set(strings)), as the set
UR_extract_strings_from_bytes(data) == PrintableRuns(data, TRUE) \cup PrefixedStrings(data)

\* _read_export_data: the bytes of the export, its printable strings and the
\* hex preview (strings_found is the set when it has at most 100 members)
UR_read_export_data(data, uexp_data, offset, size) ==
  LET adj == Max(0, offset - Len(data) + 4)
      raw == IF uexp_data # <<>>
             THEN IF adj + size <= Len(uexp_data) THEN Slice(uexp_data, adj, adj + size)
                  ELSE Slice(uexp_data, 0, Min(size, Len(uexp_data)))
             ELSE IF offset + size <= Len(data) THEN Slice(data, offset, offset + size)
                  ELSE IF offset < Len(data) THEN Slice(data, offset, Len(data)) ELSE <<>>
  IN [size |-> Len(raw), strings_found |-> UR_extract_strings_from_bytes(raw),
      hex_preview |-> Hex(Slice(raw, 0, 256))]

\* export_info["data"] = None
NoData == [size |-> -1, strings_found |-> {}, hex_preview |-> <<>>]

\* the bytes of an export record up to the "first export class" field
UR_EXPORT_RECORD == 96

\* _read_exports
RECURSIVE UR_read_exports(_, _, _, _, _, _, _)
UR_read_exports(names, imports, data, uexp_data, pos, n, exports) ==
  IF n <= 0 THEN [ok |-> TRUE, val |-> exports, pos |-> pos]
  ELSE IF pos + 92 > Len(data) THEN [ok |-> FALSE, val |-> exports, pos |-> pos]
  ELSE LET class_index == UR_read_int64(data, pos).val
           object_name == UR_read_int64(data, pos + 24).val
           serial_size == UR_read_int64(data, pos + 36).val
           serial_offset == UR_read_int64(data, pos + 44).val
           p == pos + UR_EXPORT_RECORD + (IF Positive(serial_size) THEN 8 ELSE 0)
           e == [object_name |-> UR_name_or_empty(names, object_name),
                 class_name |-> ClassNameOf(imports, class_index),
                 serial_size |-> serial_size, serial_offset |-> serial_offset,
                 data |-> IF Positive(serial_size) /\ Positive(serial_offset)
                          THEN UR_read_export_data(data, uexp_data, AsPos64(serial_offset),
                                                   AsPos64(serial_size))
                          ELSE NoData]
       IN UR_read_exports(names, imports, data, uexp_data, p, n - 1, Append(exports, e))

\* the fallback of export_to_json: the printable runs that another byte ends
FallbackStrings(data) == PrintableRuns(data, FALSE)


\* ------------------------------------------------------------ scenarios
\* the name table the scenarios draw from; index 0 is "None"
NameList == << sNone, sFoo, sItem, sHp, sIntProperty, sBoolProperty, sArrayProperty,
               sStructProperty, sZzProperty, sNameProperty, sByteProperty, sMyEnum,
               sVec, sBar, sEnumProperty >>

\* the index of a name of NameList
NameIndex(str) == CHOOSE i \in 0..(Len(NameList) - 1) : NameList[i + 1] = str

iFoo == NameIndex(sFoo)
iItem == NameIndex(sItem)
iHp == NameIndex(sHp)
iIntProperty == NameIndex(sIntProperty)
iBoolProperty == NameIndex(sBoolProperty)
iArrayProperty == NameIndex(sArrayProperty)
iStructProperty == NameIndex(sStructProperty)
iZzProperty == NameIndex(sZzProperty)
iNameProperty == NameIndex(sNameProperty)
iVec == NameIndex(sVec)
iByteProperty == NameIndex(sByteProperty)
iEnumProperty == NameIndex(sEnumProperty)
iMyEnum == NameIndex(sMyEnum)

\* bounds of the scenarios
MaxNames == 3
MaxK == 3
MaxC == 3
MaxNum == 3
MaxR == 3
MaxDepth == 3

\* the declared sizes of the properties of an unknown type: up to, at and
\* beyond the 32 bytes of raw[:32]
UnknownSizes == {1, 2, 31, 32, 33, 40}

\* a property header: name, type, 64-bit size, array index
EncPropHeader(name, type, size, array_idx) ==
  EncFName(name, 0) \o EncFName(type, 0) \o Enc64(size) \o Enc32(array_idx)

\* the value the i-th generated property or element carries
ValueAt(i) == 7 * i + 1

\* k IntProperty properties Hp, Hp[1], ..., from index i on
RECURSIVE EncIntProps(_, _)
EncIntProps(i, k) ==
  IF i >= k THEN <<>>
  ELSE IF i + 1 = k THEN EncPropHeader(iHp, iIntProperty, 4, i) \o Enc32(ValueAt(i))
  ELSE EncIntProps(i, (i + k) \div 2) \o EncIntProps((i + k) \div 2, k)

\* the 32-bit elements ValueAt(0), ..., ValueAt(c - 1)
EncInts(c) == [j \in 1..(4 * c) |-> Enc32(ValueAt((j - 1) \div 4))[((j - 1) % 4) + 1]]

\* the bytes after the terminator of a "props" scenario
Trailing(x) == IF x = 0 THEN <<>> ELSE IF x = 1 THEN <<255, 255, 255, 255, 1, 2, 3>>
               ELSE EncPropHeader(iItem, iIntProperty, 4, 0) \o Enc32(5) \o EncFName(0, 0)

\* two rows of one property each, and padding: the "trunc" scenarios cut it
TruncBuffer ==
  Enc32(2) \o EncFName(iFoo, 0) \o EncIntProps(0, 1) \o EncFName(0, 0)
           \o EncFName(iItem, 0) \o EncIntProps(0, 1) \o EncFName(0, 0) \o Zeros(8)

\* the 17 bytes between a struct-type name and the struct's fields: zeros,
\* or bytes that would read as name indices and sizes
StructFiller(x) == IF x = 0 THEN Zeros(17) ELSE [j \in 1..17 |-> 200 + j]

\* the raw bytes of a property of an unknown type
RawBytes(size) == [j \in 1..size |-> 16 + j]

\* row i of a "rows" scenario: the key Foo_<i> (or Item_<i>), i % 3
\* properties and the terminator
EncRow(i) ==
  EncFName(IF i % 2 = 0 THEN iFoo ELSE iItem, i + 1) \o EncIntProps(0, i % 3)
  \o EncFName(0, 0)

\* the rows i, ..., j - 1
RECURSIVE EncRows(_, _)
EncRows(i, j) ==
  IF i >= j THEN <<>>
  ELSE IF i + 1 = j THEN EncRow(i)
  ELSE EncRows(i, (i + j) \div 2) \o EncRows((i + j) \div 2, j)

\* byte j of n rows without properties: the key Foo_<i> and the terminator
PlainRowByte(j) ==
  IF (j - 1) % 16 < 4 THEN Enc32(iFoo)[((j - 1) % 16) + 1]
  ELSE IF (j - 1) % 16 < 8 THEN Enc32((j - 1) \div 16 + 1)[((j - 1) % 16) - 3]
  ELSE 0

\* n rows without properties, 16 bytes each
EncPlainRows(n) == [j \in 1..(16 * n) |-> PlainRowByte(j)]

\* d ArrayProperty values inside each other, each declaring 100 elements
RECURSIVE EncNestedArrays(_)
EncNestedArrays(d) ==
  IF d = 0 THEN <<>>
  ELSE EncFName(iArrayProperty, 0) \o <<0>> \o Enc32(array_limit) \o EncNestedArrays(d - 1)

\* d StructProperty properties inside each other, none with a terminator
RECURSIVE EncNestedStructs(_)
EncNestedStructs(d) ==
  IF d = 0 THEN <<>>
  ELSE EncPropHeader(iVec, iStructProperty, 0, 0) \o EncFName(iItem, 0) \o Zeros(17)
       \o EncNestedStructs(d - 1)

\* the export-data buffer (.uexp) of a description u
EncUexp(u) ==
  IF u.kind = "none" THEN <<>>
  ELSE IF u.kind = "struct"
  THEN Enc32(1) \o EncFName(iFoo, 0)
       \o EncPropHeader(iVec, iStructProperty, 33 + 32 * u.k, 0)
       \o EncFName(iItem, 0) \o StructFiller(u.x) \o EncIntProps(0, u.k) \o EncFName(0, 0)
       \o EncPropHeader(iItem, iIntProperty, 4, 0) \o Enc32(5)
       \o EncFName(0, 0) \o Zeros(8)
  ELSE IF u.kind = "unknown"
  THEN Enc32(1) \o EncFName(iFoo, 0)
       \o EncPropHeader(iVec, iZzProperty, u.k, 0) \o RawBytes(u.k)
       \o EncPropHeader(iHp, iIntProperty, 4, 0) \o Enc32(5)
       \o EncFName(0, 0) \o Zeros(8)
  ELSE IF u.kind = "enum"
  THEN Enc32(1) \o EncFName(iFoo, 0)
       \o EncPropHeader(iVec, IF u.k = 0 THEN iByteProperty ELSE iEnumProperty,
                        IF u.x = 0 THEN 1 ELSE 8, 0)
       \o (IF u.x = 0 THEN EncFName(0, 0) \o <<9>>
           ELSE EncFName(iMyEnum, 0) \o EncFName(iItem, u.x - 1))
       \o EncPropHeader(iHp, iIntProperty, 4, 0) \o Enc32(5)
       \o EncFName(0, 0) \o Zeros(8)
  ELSE IF u.kind = "dup"
  THEN Enc32(1) \o EncFName(iFoo, 0)
       \o EncPropHeader(iHp, iIntProperty, 4, u.k) \o Enc32(ValueAt(0))
       \o EncPropHeader(iHp, iIntProperty, 4, u.x) \o Enc32(ValueAt(1))
       \o EncFName(0, 0) \o Zeros(8)
  ELSE IF u.kind = "rows"
  THEN Enc32(u.k) \o EncRows(0, u.k) \o Zeros(8 * u.x)
  ELSE IF u.kind = "plainrows"
  THEN Enc32(u.k) \o EncPlainRows(u.k) \o Zeros(8 * u.x)
  ELSE IF u.kind = "nest"
  THEN Enc32(1) \o EncFName(iFoo, 0)
       \o (IF u.x = 0
           THEN EncPropHeader(iVec, iArrayProperty, 0, 0) \o EncNestedArrays(u.k)
           ELSE EncNestedStructs(u.k))
       \o Zeros(8)
  ELSE IF u.kind = "props"
  THEN Enc32(1) \o EncFName(iFoo, 0) \o EncIntProps(0, u.k) \o EncFName(0, 0) \o Trailing(u.x)
  ELSE IF u.kind = "array"
  THEN Enc32(1) \o EncFName(iFoo, 0)
       \o EncPropHeader(iVec, iArrayProperty, 4 + 4 * u.k, 0)
       \o EncFName(IF u.x = 0 THEN iIntProperty ELSE iBoolProperty, 0) \o <<0>> \o Enc32(u.k)
       \o (IF u.x = 0 THEN EncInts(u.k) ELSE [i \in 1..u.k |-> i % 2])
       \o EncFName(0, 0) \o Zeros(8)
  ELSE IF u.kind = "fname"
  THEN Enc32(1) \o EncFName(u.k, u.x)
       \o EncPropHeader(iHp, iNameProperty, 8, 0) \o EncFName(u.k, u.x)
       \o EncFName(0, 0) \o Zeros(8)
  ELSE SubSeq(TruncBuffer, 1, u.x)    \* "trunc"

\* the length of the uncut "trunc" buffer
TruncFull == Len(TruncBuffer)

NoUexp == [kind |-> "none", k |-> 0, x |-> 0]

UexpCases ==
  [kind : {"props"}, k : (0..MaxK) \cup {max_props, max_props + 1}, x : {0, 1, 2}]
  \cup [kind : {"array"}, k : (0..MaxC) \cup {array_limit, array_limit + 1}, x : {0, 1}]
  \cup [kind : {"fname"}, k : {iFoo, iItem, Len(NameList), -1}, x : 0..MaxNum]
  \cup [kind : {"trunc"}, k : {0}, x : 0..TruncFull]
  \cup [kind : {"struct"}, k : 0..MaxK, x : {0, 1}]
  \cup [kind : {"unknown"}, k : UnknownSizes, x : {0}]
  \cup [kind : {"dup"}, k : {0, 1, 2}, x : {0, 1, 2}]
  \cup [kind : {"enum"}, k : {0, 1}, x : {0, 1, 2}]
  \cup [kind : {"rows"}, k : 0..MaxR, x : {0, 1}]
  \cup [kind : {"plainrows"}, k : {MAX_ROW_COUNT - 1, MAX_ROW_COUNT}, x : {0}]
  \cup [kind : {"nest"}, k : 1..MaxDepth, x : {0, 1}]

\* import descriptions: name indices of class package, class name, object name
Imp(cp, cn, outer, on, num) ==
  [class_package |-> cp, class_name |-> cn, outer_index |-> outer, object_name |-> on,
   object_num |-> num]

ImportCases ==
  { <<>>, << Imp(0, 1, 0, 2, 0) >>, << Imp(1, 2, -1, 0, 0), Imp(2, 1, 0, 1, 2) >>,
    << Imp(0, 0, 0, 1, 0), Imp(0, 0, 0, -1, -1), Imp(0, 0, 0, -1, 0), Imp(0, 0, 0, 7, 0),
       Imp(0, 0, 0, 2, 0) >> }

Exp(ci, on, num, size, off) ==
  [class_index |-> ci, object_name |-> on, object_num |-> num, serial_size |-> size,
   serial_offset |-> off]

ExportCases ==
  { <<>>, << Exp(-1, 1, 0, 40, 300) >>, << Exp(-2, 2, 0, 12, 300), Exp(0, 1, 0, 0, 0) >>,
    << Exp(-5, 1, 1, 8, 400), Exp(-9, 0, 0, 8, 408), Exp(3, 9, 0, -1, 0) >> }

\* a description of the header buffer
Hdr(layout, magicOk, ue4, names, name_count, imports, exports, tail, cut) ==
  [layout |-> layout, magicOk |-> magicOk, ue4 |-> ue4,
   loc |-> (layout = "ur" /\ ue4 >= VER_LOCALIZATION_ID),
   stride |-> (IF layout = "dt" THEN 32 ELSE 28), hash8 |-> (layout = "ur"),
   names |-> names, name_count |-> name_count,
   imports |-> imports, import_count |-> Len(imports),
   exports |-> exports, export_count |-> Len(exports), tail |-> tail, cut |-> cut]

\* the bytes following the export table in the scenarios that have any
TailLen == 100

\* the offset at which the first n names of a description end
NamesEnd(h, n) == HeaderLen(h) + Len(EncNameTable(SubSeq(h.names, 1, n)))

Prefix(n) == SubSeq(NameList, 1, n)

\* well-formed packages
BaseHeaders ==
  { Hdr(l, TRUE, v, Prefix(n), n, im, ex, t, -1) :
      l \in {"dt", "ur"}, v \in {0, 522}, n \in 0..MaxNames,
      im \in ImportCases, ex \in ExportCases, t \in {0, TailLen} }

\* packages with a wrong tag or fewer than four bytes
BadMagicHeaders ==
  { Hdr(l, m, 0, Prefix(n), n, im, <<>>, 0, c) :
      l \in {"dt", "ur"}, m \in {FALSE}, n \in {0, 2},
      im \in { <<>>, << Imp(0, 1, 0, 1, 0) >> }, c \in {-1, 4, 40} }
  \cup { Hdr(l, TRUE, 0, Prefix(2), 2, <<>>, <<>>, 0, c) : l \in {"dt", "ur"}, c \in 0..3 }

CutAt(h, c) == [h EXCEPT !.cut = c]

\* packages that declare n names and end after n - 1 entries, or inside the summary
CutHeaders ==
  LET hs == { Hdr(l, TRUE, v, Prefix(n), n, <<>>, <<>>, 0, -1) :
                l \in {"dt", "ur"}, v \in {0, 522}, n \in 1..MaxNames }
  IN { CutAt(h, NamesEnd(h, h.name_count - 1)) : h \in hs }
     \cup { CutAt(h, c) : h \in hs, c \in {30, 100} }
     \cup { CutAt(h, HeaderLen(h) - d) : h \in hs, d \in {1, 25, 33} }

\* packages whose name table has an empty entry
EmptyNameHeaders ==
  { Hdr(l, TRUE, 0, nm, Len(nm), im, <<>>, t, -1) :
      l \in {"dt", "ur"}, nm \in { <<sFoo, <<>>, sBar>>, << <<>> >>, <<sFoo, sItem, <<>> >> },
      im \in { <<>>, << Imp(0, 0, 0, 0, 0) >> }, t \in {0, TailLen} }

\* the package the export-data scenarios come with: the dt layout, all names
FullHeader ==
  Hdr("dt", TRUE, 0, NameList, Len(NameList), << Imp(0, 1, 0, 2, 0) >>,
      << Exp(-1, 1, 0, 40, 700) >>, TailLen, -1)


\* the minimal package: one name "Foo", no imports, no exports, and some or
\* no bytes after the tables
MinimalHeaders ==
  { Hdr(l, TRUE, v, <<sFoo>>, 1, <<>>, <<>>, t, -1) :
      l \in {"dt", "ur"}, v \in {0, 522}, t \in {0, 8, TailLen} }

\* packages whose header declares one name fewer or one name more than the
\* name table holds before the import table
MiscountHeaders ==
  { Hdr(l, TRUE, 0, Prefix(n), n + d, << Imp(0, 1, 0, 1, 0) >>, ex, TailLen, -1) :
      l \in {"dt", "ur"}, n \in 1..MaxNames, d \in {-1, 1},
      ex \in { <<>>, << Exp(-1, 1, 0, 40, 300) >> } }

\* the packages both header parsers are run on: either layout, file versions
\* below, at and above the first one that stores a localization id
BothParserHeaders ==
  { Hdr(l, TRUE, v, Prefix(2), 2, << Imp(0, 1, 0, 1, 0) >>, << Exp(-1, 1, 0, 40, 300) >>,
        0, -1) :
      l \in {"dt", "ur"},
      v \in {0, VER_LOCALIZATION_ID - 1, VER_LOCALIZATION_ID, VER_LOCALIZATION_ID + 6} }

\* the packages one reader object decodes twice
AgainHeaders ==
  { Hdr("ur", TRUE, 0, Prefix(n), n, im, ex, 0, -1) :
      n \in 1..MaxNames, im \in ImportCases, ex \in ExportCases }

\* a package in the layout UAssetReader reads, decoded while other readers
\* are at work
PairHeader ==
  Hdr("ur", TRUE, 0, Prefix(MaxNames), MaxNames,
      << Imp(1, 2, -1, 0, 0), Imp(2, 1, 0, 1, 2) >>,
      << Exp(-2, 2, 0, 12, 300), Exp(0, 1, 0, 0, 0) >>, 0, -1)

\* the header buffers of the second UAssetReader of a "pair" scenario: a
\* well-formed package of other names, and the same cut inside its name table
SecondHeader ==
  Hdr("ur", TRUE, 0, <<sBar, sVec, sMyEnum>>, 3, << Imp(0, 1, 0, 2, 0) >>,
      << Exp(-1, 1, 0, 12, 300) >>, 0, -1)

SecondPackages ==
  { EncPackage(SecondHeader), EncPackage(CutAt(SecondHeader, NamesEnd(SecondHeader, 2))) }

\* variant: "dt" and "ur" run one parser once, "again" runs read() twice on
\* one UAssetReader, "pair" runs a UE4DataTableParser and two UAssetReaders
\* with their steps interleaved
Scenarios ==
  [variant : {"dt", "ur"},
   h : BaseHeaders \cup BadMagicHeaders \cup CutHeaders \cup EmptyNameHeaders
       \cup MinimalHeaders \cup MiscountHeaders,
   u : {NoUexp}]
  \cup [variant : {"dt"}, h : {FullHeader}, u : UexpCases]
  \cup [variant : {"ur"}, h : {FullHeader},
        u : {NoUexp, [kind |-> "props", k |-> 1, x |-> 0]}]
  \cup [variant : {"again"}, h : AgainHeaders, u : {NoUexp}]
  \cup [variant : {"pair"}, h : {FullHeader},
        u : {NoUexp, [kind |-> "props", k |-> 1, x |-> 0]}]
  \cup [variant : {"pair"}, h : {PairHeader} \cup BothParserHeaders, u : {NoUexp}]

\* ------------------------------------------------------------ state
VARIABLES
  scn,    \* the description of the two files the parsers were given
  dt,     \* UE4DataTableParser: position in read_file, fields of self, the result dict
  ur,     \* UAssetReader and export_to_json: position, fields of self, the result dict
  ur2,    \* a second UAssetReader, with its own buffers (the fields data and uexp)
  fs,     \* one call of _read_fstring: the reader, the buffer, the position, the return
  br,     \* FFVIIRebirthContext and the server it listens to: index, file, packets
  nm      \* one call of add_to_namemap: the arguments and the NameMap afterwards

vars == <<scn, dt, ur, ur2, fs, br, nm>>

\* the variables of the functions and objects that are not package parsers
aux == <<fs, br, nm>>

\* the variables of the package parsers
pkg == <<scn, dt, ur, ur2>>

\* self.data: the bytes of the header file, which no method writes
data == EncPackage(scn.h)

\* self.uexp_data: the bytes of the export-data file, which no method writes
uexp == EncUexp(scn.u)

NoHeader ==
  [file_version_ue4 |-> 0, name_count |-> 0, export_count |-> 0, import_count |-> 0,
   name_offset |-> 0, export_offset |-> 0, import_offset |-> 0, total_header_size |-> 0]

\* the parser after __init__ and the result dict read_file starts from:
\* keys is the set of keys of the dict
DT_init ==
  [pc |-> "idle", header |-> NoHeader, names |-> <<>>, imports |-> <<>>, exports |-> <<>>,
   keys |-> {}, r_names |-> <<>>, r_rows |-> <<>>, r_imports |-> <<>>, r_exports |-> <<>>,
   parse_error |-> "", extracted_names |-> <<>>,
   fallback |-> FALSE, decoded |-> <<>>, trace |-> <<>>]

UR_NoHeader ==
  [file_version_ue4 |-> 0, folder_name |-> <<>>, package_flags |-> 0, name_count |-> 0,
   name_offset |-> 0, export_count |-> 0, export_offset |-> 0, import_count |-> 0,
   import_offset |-> 0]

\* the names, imports and exports of a result of read()
Tree(names, imports, exports) == [names |-> names, imports |-> imports, exports |-> exports]

\* the reader after __init__; raised tells that read() ended by an exception,
\* call counts the calls of read() on this object, and first is the tree the
\* first call returned, as it was when it returned
UR_init ==
  [pc |-> "idle", pos |-> 0, header |-> UR_NoHeader, names |-> <<>>, imports |-> <<>>,
   exports |-> <<>>, raised |-> FALSE,
   keys |-> {}, r_names |-> <<>>, r_imports |-> <<>>, r_exports |-> <<>>,
   parse_error |-> "", extracted_strings |-> {},
   call |-> 1, first |-> Tree(<<>>, <<>>, <<>>)]

\* the second reader after __init__ and the load of its files
UR2_init(d, x) ==
  [pc |-> "idle", pos |-> 0, header |-> UR_NoHeader, names |-> <<>>, imports |-> <<>>,
   exports |-> <<>>, raised |-> FALSE,
   keys |-> {}, r_names |-> <<>>, r_imports |-> <<>>, r_exports |-> <<>>,
   parse_error |-> "", extracted_strings |-> {},
   call |-> 1, first |-> Tree(<<>>, <<>>, <<>>), data |-> d, uexp |-> x]

\* no call of _read_fstring on its own, no bridge, no call of add_to_namemap
NoCall == [pc |-> "idle"]

Init ==
  /\ fs = NoCall /\ br = NoCall /\ nm = NoCall
  /\ scn \in Scenarios
  /\ dt = [DT_init EXCEPT !.pc = IF scn.variant \in {"dt", "pair"} THEN "start" ELSE "idle"]
  /\ ur = [UR_init EXCEPT
             !.pc = IF scn.variant \in {"ur", "again", "pair"} THEN "start" ELSE "idle"]
  /\ ur2 \in IF scn.variant = "pair"
              THEN { [UR2_init(d, <<>>) EXCEPT !.pc = "start"] : d \in SecondPackages }
              ELSE { UR2_init(<<>>, <<>>) }


\* ------------------------------------------------------------ UE4DataTableParser.read_file
\* a handler that catches the ValueError of the tag test only
DT_catches_some(kind) == kind = "ValueError"

\* "except Exception": every exception of the parsers is caught
DT_catches(kind) == kind \in {"ValueError", "struct.error", "IndexError"}

\* the keys of the result dict read_file builds before the try
DT_base_keys == {"file", "names", "rows", "raw_data"}

\* header_info = self._parse_header(), and the except branch of read_file:
\* parse_error and the fallback extraction (of which the names are kept here)
DT_ParseHeader ==
  /\ dt.pc = "start"
  /\ LET h == DT_parse_header(data)
     IN dt' = IF h.ok
              THEN [dt EXCEPT !.pc = "names", !.header = h.val,
                              !.keys = DT_base_keys \cup {"header"}]
              ELSE IF DT_catches(h.val)
              THEN [dt EXCEPT !.pc = "done", !.parse_error = h.val,
                              !.extracted_names = dt.names,
                              !.keys = DT_base_keys \cup {"parse_error", "extracted_data"}]
              ELSE [dt EXCEPT !.pc = "crashed"]
  /\ UNCHANGED <<aux, scn, ur, ur2>>

\* self.names = self._parse_name_table(); result["names"] = self.names
DT_ParseNames ==
  /\ dt.pc = "names"
  /\ LET names == DT_parse_name_table(data, dt.header.name_offset,
                                      dt.header.import_offset, <<>>)
     IN dt' = [dt EXCEPT !.pc = "imports", !.names = names, !.r_names = names]
  /\ UNCHANGED <<aux, scn, ur, ur2>>

\* self.imports = self._parse_import_table(); result["imports"] = self.imports
DT_ParseImports ==
  /\ dt.pc = "imports"
  /\ LET imports == DT_parse_import_table(dt.names, data, dt.header.import_offset,
                                          dt.header.export_offset, <<>>)
     IN dt' = [dt EXCEPT !.pc = "exports", !.imports = imports, !.r_imports = imports,
                         !.keys = @ \cup {"imports"}]
  /\ UNCHANGED <<aux, scn, ur, ur2>>

\* self.exports = self._parse_export_table(); result["exports_meta"] = self.exports
DT_ParseExports ==
  /\ dt.pc = "exports"
  /\ LET exports == DT_parse_export_table(dt.names, dt.imports, data,
                                          dt.header.export_offset, <<>>)
     IN dt' = [dt EXCEPT !.pc = "content", !.exports = exports, !.r_exports = exports,
                         !.keys = @ \cup {"exports_meta"}]
  /\ UNCHANGED <<aux, scn, ur, ur2>>

\* result["rows"] = c.rows; return result
DT_with_rows(c) ==
  [dt EXCEPT !.pc = "done", !.r_rows = c.rows, !.fallback = c.fallback,
             !.decoded = c.decoded, !.trace = c.trace]

\* if self.uexp_data: result["rows"] = self._parse_datatable_content(); return result
DT_ParseContent ==
  /\ dt.pc = "content"
  /\ IF uexp # <<>>
     THEN \E c \in { DT_parse_datatable_content(dt.names, uexp) } : dt' = DT_with_rows(c)
     ELSE dt' = [dt EXCEPT !.pc = "done"]
  /\ UNCHANGED <<aux, scn, ur, ur2>>

\* ------------------------------------------------------------ UAssetReader.read under export_to_json
\* The steps of read() for a reader u (ur or ur2) with the buffers d and x;
\* `other` is the other UAssetReader object.

\* "except Exception" of export_to_json
UR_catches(kind) == kind \in {"ValueError", "struct.error", "IndexError"}

\* read() raised: export_to_json builds the fallback result from the file bytes
UR_fail(u, d, x, kind, names, imports, exports) ==
  IF UR_catches(kind)
  THEN [u EXCEPT !.pc = "done", !.raised = TRUE, !.names = names, !.imports = imports,
                 !.exports = exports, !.parse_error = kind,
                 !.extracted_strings = FallbackStrings(d \o x),
                 !.keys = {"file", "parse_error", "extracted_strings"}]
  ELSE [u EXCEPT !.pc = "crashed", !.raised = TRUE]

\* a names list that is an attribute of the class: one list for all readers
UR_names_shared(u, other) == other.names \o u.names

\* self.names: the list __init__ gave this reader
UR_names_of(u, other) == u.names

\* self.pos = 0; header = self._read_header()
UR_header_step(u, d, x) ==
  LET h == UR_read_header(d)
  IN IF h.ok THEN [u EXCEPT !.pc = "names", !.header = h.val, !.pos = h.pos]
     ELSE UR_fail(u, d, x, h.val, u.names, u.imports, u.exports)

\* self._read_names(header): appends to self.names
UR_names_step(u, other, d, x) ==
  LET r == UR_read_names(d, u.header.name_offset, u.header.name_count,
                         UR_names_of(u, other))
  IN IF r.ok THEN [u EXCEPT !.pc = "imports", !.names = r.val, !.pos = r.pos]
     ELSE UR_fail(u, d, x, "struct.error", r.val, u.imports, u.exports)

\* self._read_imports(header): appends to self.imports
UR_imports_step(u, d, x) ==
  LET r == UR_read_imports(u.names, d, u.header.import_offset,
                           u.header.import_count, u.imports)
  IN IF r.ok THEN [u EXCEPT !.pc = "exports", !.imports = r.val, !.pos = r.pos]
     ELSE UR_fail(u, d, x, "struct.error", u.names, r.val, u.exports)

\* self._read_exports(header): appends to self.exports
UR_exports_step(u, d, x) ==
  LET r == UR_read_exports(u.names, u.imports, d, x, u.header.export_offset,
                           u.header.export_count, u.exports)
  IN IF r.ok THEN [u EXCEPT !.pc = "strings", !.exports = r.val, !.pos = r.pos]
     ELSE UR_fail(u, d, x, "struct.error", u.names, u.imports, r.val)

\* strings = self._extract_strings(); return {...}
UR_return_step(u, d, x) ==
  [u EXCEPT !.pc = "done", !.r_names = u.names, !.r_imports = u.imports,
            !.r_exports = u.exports,
            !.extracted_strings = UR_extract_strings_from_bytes(d \o x),
            !.keys = {"file", "header", "names", "imports", "exports",
                      "extracted_strings"}]

UR_ReadHeader ==
  /\ ur.pc = "start"
  /\ ur' = UR_header_step(ur, data, uexp)
  /\ UNCHANGED <<aux, scn, dt, ur2>>

UR_ReadNames ==
  /\ ur.pc = "names"
  /\ ur' = UR_names_step(ur, ur2, data, uexp)
  /\ UNCHANGED <<aux, scn, dt, ur2>>

UR_ReadImports ==
  /\ ur.pc = "imports"
  /\ ur' = UR_imports_step(ur, data, uexp)
  /\ UNCHANGED <<aux, scn, dt, ur2>>

UR_ReadExports ==
  /\ ur.pc = "exports"
  /\ ur' = UR_exports_step(ur, data, uexp)
  /\ UNCHANGED <<aux, scn, dt, ur2>>

UR_Return ==
  /\ ur.pc = "strings"
  /\ ur' = UR_return_step(ur, data, uexp)
  /\ UNCHANGED <<aux, scn, dt, ur2>>

\* a second call of read() on the reader whose first call has returned: the
\* files are loaded again, self.pos = 0, and the lists of __init__ stay
UR_ReadAgain ==
  /\ scn.variant = "again" /\ ur.pc = "done" /\ ur.call = 1 /\ ~ur.raised
  /\ ur' = [ur EXCEPT !.pc = "start", !.call = 2, !.pos = 0,
                       !.first = Tree(ur.r_names, ur.r_imports, ur.r_exports)]
  /\ UNCHANGED <<aux, scn, dt, ur2>>

\* the same steps of the second reader
UR2_ReadHeader ==
  /\ ur2.pc = "start"
  /\ ur2' = UR_header_step(ur2, ur2.data, ur2.uexp)
  /\ UNCHANGED <<aux, scn, dt, ur>>

UR2_ReadNames ==
  /\ ur2.pc = "names"
  /\ ur2' = UR_names_step(ur2, ur, ur2.data, ur2.uexp)
  /\ UNCHANGED <<aux, scn, dt, ur>>

UR2_ReadImports ==
  /\ ur2.pc = "imports"
  /\ ur2' = UR_imports_step(ur2, ur2.data, ur2.uexp)
  /\ UNCHANGED <<aux, scn, dt, ur>>

UR2_ReadExports ==
  /\ ur2.pc = "exports"
  /\ ur2' = UR_exports_step(ur2, ur2.data, ur2.uexp)
  /\ UNCHANGED <<aux, scn, dt, ur>>

UR2_Return ==
  /\ ur2.pc = "strings"
  /\ ur2' = UR_return_step(ur2, ur2.data, ur2.uexp)
  /\ UNCHANGED <<aux, scn, dt, ur>>

Next ==
  \/ DT_ParseHeader
  \/ DT_ParseNames
  \/ DT_ParseImports
  \/ DT_ParseExports
  \/ DT_ParseContent
  \/ UR_ReadHeader
  \/ UR_ReadNames
  \/ UR_ReadImports
  \/ UR_ReadExports
  \/ UR_Return
  \/ UR_ReadAgain
  \/ UR2_ReadHeader
  \/ UR2_ReadNames
  \/ UR2_ReadImports
  \/ UR2_ReadExports
  \/ UR2_Return

Spec == Init /\ [][Next]_vars

\* read_file runs in the thread that called it and nothing in it waits: a
\* call that has reached _parse_datatable_content goes on with it
\* (weak fairness of DT_ParseContent, which is enabled exactly when dt.pc is
\* "content" and always leaves it)
FairSpec == Spec /\ ([]<>(dt.pc # "content") \/ []<><<DT_ParseContent>>_vars)

\* ------------------------------------------------------------ _read_fstring on its own
\* the parsers at rest, while a function is called on its own
Parked ==
  /\ scn = [variant |-> "none", h |-> FullHeader, u |-> NoUexp]
  /\ dt = DT_init /\ ur = UR_init /\ ur2 = UR2_init(<<>>, <<>>)

\* the largest length prefix, and the largest number of bytes after a prefix
MaxL == 3

MaxPayload == 8

\* byte i of the bytes after the prefix: "ascii" is text, "bad" has a byte that
\* starts no UTF-8 sequence, "utf16" is a run of UTF-16LE units below 128,
\* "surrogate" starts with the unit D800
FS_byte(kind, i) ==
  IF kind = "ascii" THEN 64 + i
  ELSE IF kind = "bad" THEN (IF i = 2 THEN 255 ELSE 64 + i)
  ELSE IF kind = "surrogate" /\ i <= 2 THEN (IF i = 1 THEN 0 ELSE 216)
  ELSE IF i % 2 = 1 THEN 64 + i ELSE 0

\* the buffer of a call: `pos` bytes that are not read, the prefix L, m bytes
FS_buffer(pos, L, kind, m) ==
  [i \in 1..pos |-> 7] \o Enc32(L) \o [i \in 1..m |-> FS_byte(kind, i)]

\* nothing returned yet
NoReturn == [ok |-> FALSE, val |-> <<>>, pos |-> -1]

FS_calls ==
  { [pc |-> "call", reader |-> r, pos |-> p, L |-> l, kind |-> k, m |-> m,
     buf |-> FS_buffer(p, l, k, m), ret |-> NoReturn] :
      r \in {"dt", "ur"}, p \in {0, 3}, l \in (-MaxL)..MaxL,
      k \in {"ascii", "bad", "utf16", "surrogate"}, m \in 0..MaxPayload }

StrInit == Parked /\ br = NoCall /\ nm = NoCall /\ fs \in FS_calls

\* UE4DataTableParser._read_fstring(data, pos)
DT_CallReadFString ==
  /\ fs.pc = "call" /\ fs.reader = "dt"
  /\ fs' = [fs EXCEPT !.pc = "ret", !.ret = DT_read_fstring(fs.buf, fs.pos)]
  /\ UNCHANGED <<pkg, br, nm>>

\* UAssetReader._read_fstring() with self.pos = pos
UR_CallReadFString ==
  /\ fs.pc = "call" /\ fs.reader = "ur"
  /\ fs' = [fs EXCEPT !.pc = "ret", !.ret = UR_read_fstring(fs.buf, fs.pos)]
  /\ UNCHANGED <<pkg, br, nm>>

StrNext == DT_CallReadFString \/ UR_CallReadFString

StrSpec == StrInit /\ [][StrNext]_vars


\* ------------------------------------------------------------ properties
\* The decode call is read_file for UE4DataTableParser and, for UAssetReader,
\* read() as export_to_json calls it (read() itself has no handler: ur.raised
\* tells that it ended by an exception, which export_to_json caught).

\* the parser of the scenario has returned
Done == (scn.variant = "dt" /\ dt.pc = "done") \/ (scn.variant = "ur" /\ ur.pc = "done")

\* the tables and the error of the result the caller gets
Names == IF scn.variant = "dt" THEN dt.r_names ELSE ur.r_names

Imports == IF scn.variant = "dt" THEN dt.r_imports ELSE ur.r_imports

Exports == IF scn.variant = "dt" THEN dt.r_exports ELSE ur.r_exports

ParseError == IF scn.variant = "dt" THEN dt.parse_error ELSE ur.parse_error

\* the header buffer starts with the four bytes of the package tag
HasTag == Len(data) >= 4 /\ SubSeq(data, 1, 4) = <<193, 131, 42, 158>>

\* the header buffer is complete, carries the tag, is laid out as the parser
\* of the scenario reads it, and declares as many names as it holds
WellFormed ==
  /\ scn.h.magicOk /\ scn.h.cut < 0 /\ scn.h.layout = scn.variant
  /\ scn.h.name_count = Len(scn.h.names)

NoEmptyName == \A i \in 1..Len(scn.h.names) : scn.h.names[i] # <<>>

C3_TruncationRecoveredInLoop ==
  (dt.pc = "done" /\ scn.u.kind = "trunc") =>
    /\ ~dt.fallback
    /\ Len(dt.r_rows) >= Len(dt.decoded)
    /\ \A i \in 1..Len(dt.decoded) : dt.r_rows[i] = dt.decoded[i]

\* C3 witness: the buffer of two rows cut inside the second row's property
\* header: the first row had been decoded, and the result holds the rows of
\* the alternative parse instead, with no parse error recorded
C3_DecodedRowReplaced ==
  /\ dt.pc = "done" /\ scn.u.kind = "trunc" /\ scn.u.x = 80
  /\ dt.fallback /\ dt.parse_error = ""
  /\ Len(dt.decoded) = 1 /\ dt.r_rows[1] # dt.decoded[1]

\* the key the i-th generated property is stored under: "Hp", "Hp[1]", ...
PropKey(i) == IF i = 0 THEN sHp ELSE sHp \o <<91>> \o DecNat(i) \o <<93>>

\* the one row of the result holds exactly the first n generated properties,
\* and the loop read n properties and nothing after the terminator
DecodedProps(n) ==
  /\ ~dt.fallback /\ Len(dt.trace) = 1 /\ dt.trace[1].n = n
  /\ dt.trace[1].pos <= dt.trace[1].start + 32 * scn.u.k + 8
  /\ Len(dt.r_rows) = 1 /\ Len(dt.r_rows[1].v) = n + 2
  /\ \A i \in 0..(n - 1) : dt.r_rows[1].v[i + 3] = <<PropKey(i), IntV(ValueAt(i))>>

\* C4: a property list with k properties before the first "None" decodes
\* exactly k properties and stops, whatever follows the terminator, for
\* every k from 0 to max_props.
C4_DecodesKProperties ==
  (dt.pc = "done" /\ scn.u.kind = "props" /\ scn.u.k <= max_props) => DecodedProps(scn.u.k)

\* C4 witness: max_props properties followed by a terminator and more bytes
C4_DecodedUpToTheLimit ==
  /\ dt.pc = "done" /\ scn.u.kind = "props" /\ scn.u.k = max_props /\ scn.u.x = 2
  /\ dt.trace[1].n = max_props

\* C4 (as the specification states it): the same for every k >= 0
C4_DecodesKPropertiesAnyK ==
  (dt.pc = "done" /\ scn.u.kind = "props") => DecodedProps(scn.u.k)

\* the element the i-th position of a generated array holds (i from 1)
ElementAt(i) == IF scn.u.x = 0 THEN IntV(ValueAt(i - 1)) ELSE BoolV(i % 2 = 1)

\* the array property of the one row is the list of the first n generated elements
DecodedArray(n) ==
  /\ ~dt.fallback /\ Len(dt.r_rows) = 1 /\ Len(dt.r_rows[1].v) >= 3
  /\ dt.r_rows[1].v[3][1] = sVec
  /\ dt.r_rows[1].v[3][2].t = "list"
  /\ Len(dt.r_rows[1].v[3][2].v) = n
  /\ \A i \in 1..n : dt.r_rows[1].v[3][2].v[i] = ElementAt(i)

NamesCutShort ==
  /\ scn.h.magicOk /\ scn.h.layout = scn.variant
  /\ scn.h.name_count = Len(scn.h.names) /\ scn.h.name_count >= 1
  /\ scn.h.cut = NamesEnd(scn.h, scn.h.name_count - 1)

\* C7 (as the specification states it): such a buffer decodes to exactly the
\* N - 1 names together with a marker of the truncation in the result, and
\* the decode call does not fail.
C7_TruncatedNamesKeptAndMarked ==
  (Done /\ NamesCutShort) =>
    /\ Names = SubSeq(scn.h.names, 1, scn.h.name_count - 1)
    /\ ParseError # ""

\* C7 witness: two names declared, the buffer ends after the first entry:
\* UE4DataTableParser returns the one name and the keys of a complete tree,
\* with no parse error
C7_OneNameNoMarker ==
  /\ Done /\ NamesCutShort /\ scn.variant = "dt" /\ scn.h.name_count = 2
  /\ Names = <<sNone>> /\ ParseError = ""
  /\ dt.keys = DT_base_keys \cup {"header", "imports", "exports_meta"}

\* the decoded row key and the NameProperty value of an "fname" scenario
RowName == dt.r_rows[1].v[2][2].v

NameValue == dt.r_rows[1].v[3][2].v

FNameCase == dt.pc = "done" /\ scn.u.kind = "fname" /\ Len(dt.r_rows) = 1

\* C8: an FName of the export data with an in-range index i and number n
\* decodes to names[i] for n = 0 and to names[i], "_" and the decimal n - 1
\* for n > 0; "Item" with n = 3 gives "Item_2".
C8_InstanceSuffix ==
  (dt.pc = "done" /\ scn.u.kind = "fname" /\ 0 <= scn.u.k /\ scn.u.k < Len(dt.names)) =>
    /\ Len(dt.r_rows) = 1
    /\ scn.u.x = 0 => RowName = dt.names[scn.u.k + 1]
    /\ scn.u.x > 0 => RowName = dt.names[scn.u.k + 1] \o <<95>> \o DecNat(scn.u.x - 1)
    /\ NameValue = RowName
    /\ (scn.u.k = iItem /\ scn.u.x = 3) => RowName = <<73, 116, 101, 109, 95, 50>>

\* C8 witness: "Item" with number 3 was decoded
C8_ItemThreeDecoded ==
  FNameCase /\ scn.u.k = iItem /\ scn.u.x = 3 /\ NameValue = <<73, 116, 101, 109, 95, 50>>

\* "<name_N>" for the index N of a scenario, a 32-bit index being shown
\* signed by the FName reader and unsigned by _get_name
TokenSigned(idx) ==
  sNamePrefix \o (IF idx < 0 THEN <<45>> \o DecNat(-idx) ELSE DecNat(idx)) \o <<62>>

TokenUnsigned(idx) ==
  sNamePrefix \o (IF idx = -1 THEN <<52, 50, 57, 52, 57, 54, 55, 50, 57, 53>>
                  ELSE DecNat(idx)) \o <<62>>

OutOfRange(idx, names) == idx < 0 \/ idx >= Len(names)

\* the name references of the tables reach _get_name: always in
\* UE4DataTableParser, and in UAssetReader when the 64-bit value is not negative
Resolved(num) == scn.variant = "dt" \/ num >= 0

C10_ClassFromImport ==
  (Done /\ WellFormed /\ NoEmptyName) =>
    /\ Len(Exports) >= Len(scn.h.exports)
    /\ \A i \in 1..Len(scn.h.exports) :
         (scn.h.exports[i].class_index < 0
          /\ -scn.h.exports[i].class_index <= Len(Imports)) =>
           Exports[i].class_name = Imports[-scn.h.exports[i].class_index].object_name

\* C10 witness: class index -5 resolved to the fifth import record, "Item"
C10_MinusFiveDecoded ==
  /\ Done /\ WellFormed /\ Len(scn.h.exports) = 3 /\ Len(Imports) = 5
  /\ scn.h.exports[1].class_index = -5
  /\ Imports[5].object_name = sItem /\ Exports[1].class_name = sItem

\* the dict a struct value of type "Item" with the first n generated
\* properties decodes to
RECURSIVE StructItems(_)
StructItems(n) ==
  IF n = 0 THEN << <<sStructType, StrV(sItem)>> >>
  ELSE Append(StructItems(n - 1), <<PropKey(n - 1), IntV(ValueAt(n - 1))>>)

\* the "struct" scenario is decoded: a row with the StructProperty "Vec", whose
\* value is the type name "Item", 17 filler bytes and k properties, followed
\* by the IntProperty "Item"
StructCase == dt.pc = "done" /\ scn.variant = "dt" /\ scn.u.kind = "struct"

\* C11: a struct value reads its struct-type name (8 bytes) and skips exactly
\* 17 bytes, so that the first nested property header is read 25 bytes after
\* the start of the value; the nested fields are decoded by the property-list
\* loop (k fields and the terminator), and the property after the struct is
\* read from the byte after the nested terminator.
C11_StructSkipsSeventeen ==
  StructCase =>
    /\ ~dt.fallback /\ Len(dt.r_rows) = 1 /\ Len(dt.trace) = 1
    /\ dt.r_rows[1].v =
         << <<sIndexKey, IntV(0)>>, <<sRowNameKey, StrV(sFoo)>>,
            <<sVec, DictV(StructItems(scn.u.k))>>, <<sItem, IntV(5)>> >>
    /\ dt.trace[1].n = 2 /\ dt.trace[1].stop = "None"
    /\ dt.trace[1].pos = dt.trace[1].start + 28 + 25 + 32 * scn.u.k + 8 + 32 + 8

\* C11 witness: a struct with MaxK fields behind 17 bytes that are not zero
C11_StructWithFieldsDecoded ==
  /\ StructCase /\ scn.u.k = MaxK /\ scn.u.x = 1
  /\ Len(dt.r_rows) = 1 /\ Len(dt.r_rows[1].v) = 4
  /\ Len(dt.r_rows[1].v[3][2].v) = MaxK + 1

\* the "unknown" scenario is decoded: a row with the property "Vec" of the
\* type "ZzProperty" and the declared size k, its k raw bytes, and the
\* IntProperty "Hp" after them
UnknownCase == dt.pc = "done" /\ scn.variant = "dt" /\ scn.u.kind = "unknown"

\* the opaque value of the type "ZzProperty" that carries the bytes bs
Opaque(bs) == StrV(<<60>> \o sZzProperty \o <<58>> \o Hex(bs) \o <<62>>)

\* the cursor advanced by exactly the declared size: the property after the
\* raw bytes is decoded, and the list ends where the buffer says
UnknownSkipped ==
  /\ ~dt.fallback /\ Len(dt.r_rows) = 1 /\ Len(dt.trace) = 1
  /\ Len(dt.r_rows[1].v) = 4 /\ dt.r_rows[1].v[3][1] = sVec
  /\ dt.r_rows[1].v[4] = <<sHp, IntV(5)>>
  /\ dt.trace[1].n = 2 /\ dt.trace[1].stop = "None"
  /\ dt.trace[1].pos = dt.trace[1].start + 28 + scn.u.k + 32 + 8

\* C12: a property of an unknown type with a declared size S > 0 advances
\* the cursor by exactly S bytes and decodes to an opaque value that carries
\* the type tag and the first min(S, 32) of the S raw bytes skipped.
C12_UnknownTypeSkipped ==
  UnknownCase =>
    /\ UnknownSkipped
    /\ dt.r_rows[1].v[3][2] = Opaque(SubSeq(RawBytes(scn.u.k), 1, Min(scn.u.k, 32)))

\* C12 witness: a value of 32 raw bytes, all of them carried
C12_ThirtyTwoBytesCarried ==
  /\ UnknownCase /\ scn.u.k = 32 /\ Len(dt.r_rows) = 1
  /\ dt.r_rows[1].v[3][2] = Opaque(RawBytes(32))

\* C12 (as the specification states it): the value carries the S raw bytes
C12_UnknownTypeCarriesAllBytes ==
  UnknownCase => (UnknownSkipped /\ dt.r_rows[1].v[3][2] = Opaque(RawBytes(scn.u.k)))

\* the minimal package is decoded: the tag, the one name "Foo", no import and
\* no export, laid out as the parser of the scenario reads it, and 0, 8 or
\* TailLen bytes after the tables
MinimalCase == Done /\ WellFormed /\ scn.h \in MinimalHeaders

\* C13: the minimal package decodes to names == ["Foo"], imports == [],
\* rows == [] and no export record, whatever the length of the header buffer.
C13_MinimalPackage ==
  MinimalCase =>
    /\ ParseError = "" /\ Names = <<sFoo>> /\ Imports = <<>> /\ Exports = <<>>
    /\ scn.variant = "dt" => dt.r_rows = <<>>

\* C13: the table parser produced an export record for the minimal package
\* followed by TailLen zero bytes
C13_ExportRecordFromTail ==
  /\ MinimalCase /\ scn.variant = "dt" /\ scn.h.tail = TailLen
  /\ Names = <<sFoo>> /\ Imports = <<>> /\ dt.r_rows = <<>>
  /\ Len(Exports) = 1 /\ Exports[1].object_name = sFoo /\ Exports[1].class_name = <<>>

\* the "dup" scenario is decoded: a row with two IntProperty properties named
\* "Hp", with the array indices k and x and the values ValueAt(0), ValueAt(1)
DupCase == dt.pc = "done" /\ scn.variant = "dt" /\ scn.u.kind = "dup"

\* C14: the decoded row keeps every decoded property, in the order of their
\* declaration: both properties of the same name are present after the row
\* key, none is lost or overwritten.
C14_EveryPropertyKept ==
  DupCase =>
    /\ ~dt.fallback /\ Len(dt.r_rows) = 1 /\ dt.trace[1].n = 2
    /\ Len(dt.r_rows[1].v) = 4
    /\ dt.r_rows[1].v[3] = <<PropKey(scn.u.k), IntV(ValueAt(0))>>
    /\ dt.r_rows[1].v[4] = <<PropKey(scn.u.x), IntV(ValueAt(1))>>

\* C14: two properties "Hp" with the array index 0 were decoded and the row
\* holds one, with the value of the second
C14_SecondOverwroteFirst ==
  /\ DupCase /\ scn.u.k = 0 /\ scn.u.x = 0
  /\ ~dt.fallback /\ Len(dt.r_rows) = 1 /\ dt.trace[1].n = 2 /\ dt.trace[1].stop = "None"
  /\ dt.r_rows[1].v = << <<sIndexKey, IntV(0)>>, <<sRowNameKey, StrV(sFoo)>>,
                         <<sHp, IntV(ValueAt(1))>> >>

\* read() has returned for the second time on the same UAssetReader
SecondCallDone == scn.variant = "again" /\ ur.pc = "done" /\ ur.call = 2 /\ ~ur.raised

\* the tree the second call returned
SecondTree == Tree(ur.r_names, ur.r_imports, ur.r_exports)

\* the tree the first call returned, as the caller sees it now: the dict
\* holds self.names, self.imports and self.exports themselves, not copies
FirstTreeNow == Tree(ur.names, ur.imports, ur.exports)

\* C15: a decode call leaves no state that affects a later one: the second
\* call on the same reader and the same buffers returns a tree equal to the
\* first, and the first tree is as it was when it was returned.
C15_SecondCallSameTree ==
  SecondCallDone => (SecondTree = ur.first /\ FirstTreeNow = ur.first)

\* C15: after the second call both trees hold every name, import and export
\* twice
C15_TablesDoubled ==
  /\ SecondCallDone /\ Len(ur.first.names) = MaxNames /\ Len(ur.first.exports) >= 1
  /\ SecondTree.names = ur.first.names \o ur.first.names
  /\ Len(SecondTree.imports) = 2 * Len(ur.first.imports)
  /\ Len(SecondTree.exports) = 2 * Len(ur.first.exports)
  /\ FirstTreeNow = SecondTree

\* read() run from the state u to its end with no other reader at work
RECURSIVE UR_alone(_, _, _)
UR_alone(u, d, x) ==
  IF u.pc = "start" THEN UR_alone(UR_header_step(u, d, x), d, x)
  ELSE IF u.pc = "names" THEN UR_alone(UR_names_step(u, UR_init, d, x), d, x)
  ELSE IF u.pc = "imports" THEN UR_alone(UR_imports_step(u, d, x), d, x)
  ELSE IF u.pc = "exports" THEN UR_alone(UR_exports_step(u, d, x), d, x)
  ELSE IF u.pc = "strings" THEN UR_alone(UR_return_step(u, d, x), d, x)
  ELSE u

\* the result of read_file is the one its parsers give on the buffers of the
\* parser alone
DT_alone ==
  /\ dt.parse_error = "" /\ DT_parse_header(data).ok
  /\ dt.header = DT_parse_header(data).val
  /\ dt.r_names = DT_parse_name_table(data, dt.header.name_offset,
                                      dt.header.import_offset, <<>>)
  /\ dt.r_imports = DT_parse_import_table(dt.r_names, data, dt.header.import_offset,
                                          dt.header.export_offset, <<>>)
  /\ dt.r_exports = DT_parse_export_table(dt.r_names, dt.r_imports, data,
                                          dt.header.export_offset, <<>>)
  /\ dt.r_rows = IF uexp # <<>> THEN DT_parse_datatable_content(dt.r_names, uexp).rows
                 ELSE <<>>

\* C16: decode calls on separate reader objects whose steps interleave in any
\* order each produce the tree they produce when run alone: the readers
\* share no mutable state.
C16_InterleavedSameAsAlone ==
  scn.variant = "pair" =>
    /\ ur.pc = "done" => ur = UR_alone([UR_init EXCEPT !.pc = "start"], data, uexp)
    /\ ur2.pc = "done" =>
         ur2 = UR_alone([UR2_init(ur2.data, ur2.uexp) EXCEPT !.pc = "start"],
                        ur2.data, ur2.uexp)
    /\ dt.pc = "done" => DT_alone

\* C16 witness: three readers have returned, two of them UAssetReaders with
\* different name tables
C16_ThreeReadersDone ==
  /\ scn.variant = "pair" /\ dt.pc = "done" /\ ur.pc = "done" /\ ur2.pc = "done"
  /\ ~ur.raised /\ ~ur2.raised
  /\ Len(ur.r_names) = MaxNames /\ ur2.r_names = <<sBar, sVec, sMyEnum>>
  /\ Len(dt.r_names) = MaxNames

\* no list inside the value v holds more than 100 elements and no dict inside
\* it more than 100 properties (and "_struct_type")
RECURSIVE ValueBounded(_)
ValueBounded(v) ==
  IF v.t = "list"
  THEN Len(v.v) <= 100 /\ \A i \in 1..Len(v.v) : ValueBounded(v.v[i])
  ELSE IF v.t = "dict"
  THEN Len(v.v) <= 100 + 1 /\ \A i \in 1..Len(v.v) : ValueBounded(v.v[i][2])
  ELSE TRUE

\* every property list the row loop read took at most 100 passes, and so did
\* every list nested in its values
LoopsBounded ==
  /\ \A i \in 1..Len(dt.trace) : dt.trace[i].n <= 100
  /\ \A i \in 1..Len(dt.decoded) :
       /\ Len(dt.decoded[i].v) <= 100 + 2
       /\ \A j \in 1..Len(dt.decoded[i].v) : ValueBounded(dt.decoded[i].v[j][2])

\* C17: on every export-data buffer the table decode terminates: a call that
\* has reached the decode of the export data returns, every property-list
\* loop runs at most 100 times, and the decode of nested structs and arrays
\* returns.
C17_TableDecodeTerminates ==
  /\ [](dt.pc = "done" => LoopsBounded)
  /\ (dt.pc = "content") ~> (dt.pc = "done")

\* C17 witness: the decode returned on a row of 101 properties, whose loop
\* stopped after 100 passes
C17_CappedListReturned ==
  /\ dt.pc = "done" /\ scn.u.kind = "props" /\ scn.u.k = 100 + 1
  /\ Len(dt.trace) = 1 /\ dt.trace[1].n = 100 /\ dt.trace[1].stop = "cap"

\* some property list of the decode stopped at the cap, no terminator seen
SomeListCapped == \E i \in 1..Len(dt.trace) : dt.trace[i].stop = "cap"

\* the result dict is the one of a decode without incident: the keys read_file
\* always sets, no parse_error, rows that hold a key, a name and properties
PlainResult ==
  /\ dt.parse_error = "" /\ ~dt.fallback
  /\ dt.keys \subseteq DT_base_keys \cup {"header", "imports", "exports_meta"}
  /\ \A i \in 1..Len(dt.r_rows) :
       /\ dt.r_rows[i].t = "dict"
       /\ dt.r_rows[i].v[1] = <<sIndexKey, IntV(i - 1)>>
       /\ dt.r_rows[i].v[2][1] = sRowNameKey

\* C18: when a property-list loop stops at the iteration cap without a
\* terminator, the result reports a partial result (a parse_error, a key
\* beyond the usual ones, or a row that is not a plain row), so that it can be
\* told from the result of a list that ended on "None".
C18_CapReported ==
  (dt.pc = "done" /\ SomeListCapped) => ~PlainResult

\* C18 witness: a row of 101 properties was cut after 100 and the result is
\* the plain result of a row of 100 properties
C18_CappedLooksComplete ==
  /\ dt.pc = "done" /\ scn.u.kind = "props" /\ scn.u.k = max_props + 1
  /\ SomeListCapped /\ PlainResult
  /\ Len(dt.r_rows) = 1 /\ Len(dt.r_rows[1].v) = max_props + 2
  /\ \A i \in 0..(max_props - 1) : dt.r_rows[1].v[i + 3] = <<PropKey(i), IntV(ValueAt(i))>>

\* the properties Hp, Hp[1], ..., n of them, as items of a row
ExpectedProps(n) == [j \in 1..n |-> <<PropKey(j - 1), IntV(ValueAt(j - 1))>>]

\* row i (from 0) of a "rows" or "plainrows" buffer, as the decode should
\* return it: the index, the key Foo_<i> or Item_<i>, then its properties
ExpectedRow(i) ==
  DictV(<< <<sIndexKey, IntV(i)>>,
           <<sRowNameKey,
             StrV((IF scn.u.kind = "rows" /\ i % 2 = 1 THEN sItem ELSE sFoo)
                  \o <<95>> \o DecNat(i))>> >>
        \o ExpectedProps(IF scn.u.kind = "rows" THEN i % 3 ELSE 0))

\* the decode of a buffer that declares a row count and holds that many rows
RowsCase == dt.pc = "done" /\ scn.variant = "dt" /\ scn.u.kind \in {"rows", "plainrows"}

\* the result holds exactly the declared rows, in buffer order
AllRowsDecoded ==
  /\ ~dt.fallback /\ Len(dt.r_rows) = scn.u.k
  /\ \A i \in 1..scn.u.k : dt.r_rows[i] = ExpectedRow(i - 1)

\* C19 (as the code has it): a buffer that declares R rows and holds them
\* decodes to exactly these R rows, row i with the i-th key and the i-th
\* property list, for 0 <= R < 10000; from R = 10000 on no row is returned.
C19_DeclaredRowsDecoded ==
  RowsCase => IF scn.u.k < 10000 THEN AllRowsDecoded
              ELSE dt.r_rows = <<>> /\ ~dt.fallback

\* C19 (as stated): a buffer that declares R rows and holds them decodes to
\* exactly R rows, for every R >= 0.
C19_DeclaredRowsDecodedAnyCount ==
  RowsCase => AllRowsDecoded

\* C19 witness: 9999 declared rows were decoded, the last with the key that
\* stands last in the buffer
C19_LargestTableDecoded ==
  /\ RowsCase /\ scn.u.kind = "plainrows" /\ scn.u.k = 10000 - 1
  /\ Len(dt.r_rows) = 10000 - 1
  /\ dt.r_rows[Len(dt.r_rows)] = ExpectedRow(10000 - 2)

\* the property list of row i ended on "None": its n properties of 32 bytes
\* are in the row, no key "None" is, and the cursor stands 8 bytes past the
\* start of the terminator, where the next row key is read from
TerminatorConsumed(i) ==
  /\ dt.trace[i].pos = dt.trace[i].start + 32 * dt.trace[i].n + 8
  /\ Len(dt.r_rows[i].v) = dt.trace[i].n + 2
  /\ \A j \in 1..Len(dt.r_rows[i].v) : dt.r_rows[i].v[j][1] # sNone
  /\ i < Len(dt.trace) => dt.trace[i + 1].start = dt.trace[i].pos + 8

\* C20: when a property-list loop ends on the "None" terminator, the
\* terminator is not stored as a property and the cursor is left exactly 8
\* bytes past the start of the terminator, so that the next row key is read
\* from the byte that follows it.
C20_TerminatorNotStored ==
  (dt.pc = "done" /\ scn.variant = "dt" /\ scn.u.kind \in {"props", "rows"} /\ ~dt.fallback)
  => \A i \in 1..Len(dt.trace) : dt.trace[i].stop = "None" => TerminatorConsumed(i)

\* C20 witness: MaxR rows were read, every list ending on its terminator and
\* some list holding properties
C20_EveryRowEndedOnNone ==
  /\ dt.pc = "done" /\ scn.variant = "dt" /\ scn.u.kind = "rows" /\ scn.u.k = MaxR
  /\ Len(dt.trace) = MaxR /\ Len(dt.r_rows) = MaxR
  /\ \A i \in 1..MaxR : dt.trace[i].stop = "None" /\ TerminatorConsumed(i)
  /\ \E i \in 1..MaxR : dt.trace[i].n > 0

\* the parser of the scenario was given a package in its own layout, with the
\* right tag and nothing cut off
OwnLayout == scn.h.magicOk /\ scn.h.cut < 0 /\ scn.h.layout = scn.variant

\* the names the parser of the scenario read
NamesRead == IF scn.variant = "dt" THEN dt.names ELSE ur.names

\* the scenario's parser has returned
ParserDone == IF scn.variant = "dt" THEN dt.pc = "done" ELSE ur.pc = "done"

\* C21: the name-table reader stops when the declared name count has been
\* read or the cursor has reached the import table: it never appends more
\* names than the header declares and never reads an entry that starts at or
\* beyond the import offset (the table holds Len(scn.h.names) entries before
\* that offset).
C21_NameReaderStops ==
  (scn.variant \in {"dt", "ur"} /\ OwnLayout /\ ParserDone)
  => /\ Len(NamesRead) <= scn.h.name_count
     /\ Len(NamesRead) <= Len(scn.h.names)

\* C21 witness: UE4DataTableParser returned more names than the header declares
C21_MoreNamesThanDeclared ==
  /\ scn.variant = "dt" /\ OwnLayout /\ dt.pc = "done" /\ dt.parse_error = ""
  /\ scn.h \in MiscountHeaders
  /\ Len(dt.r_names) = dt.header.name_count + 1

\* the name a name index of the package stands for, if it is in the table
NameOf(i) == IF 0 <= i /\ i < Len(scn.h.names) THEN scn.h.names[i + 1] ELSE <<>>

\* entry i of the decoded import list comes from record i of the import table
ImportFromRecord(i) ==
  /\ (0 <= scn.h.imports[i].class_package /\ scn.h.imports[i].class_package < Len(scn.h.names))
       => Imports[i].class_package = NameOf(scn.h.imports[i].class_package)
  /\ (0 <= scn.h.imports[i].class_name /\ scn.h.imports[i].class_name < Len(scn.h.names))
       => Imports[i].class_name = NameOf(scn.h.imports[i].class_name)

\* C22: the import-table reader reads exactly the number of records the
\* header's import count declares: the decoded import list has that many
\* entries, entry i taken from record i after the import offset.
C22_ImportsMatchDeclaredCount ==
  (Done /\ WellFormed /\ NoEmptyName) =>
    /\ Len(Imports) = scn.h.import_count
    /\ \A i \in 1..scn.h.import_count : ImportFromRecord(i)

\* C22 witness: the header declares one import record, the buffer ends with
\* it, and UE4DataTableParser returned an empty import list and no error
C22_LastRecordNotRead ==
  /\ Done /\ WellFormed /\ NoEmptyName /\ scn.variant = "dt"
  /\ scn.h.import_count = 1 /\ scn.h.exports = <<>> /\ scn.h.tail = 0
  /\ dt.header.import_count = 1 /\ Imports = <<>> /\ ParseError = ""

\* C23: the export-table reader reads exactly the number of records the
\* header's export count declares: the decoded export list has that many
\* entries, whatever serial size a record stores and however many bytes
\* follow the export table.
C23_ExportsMatchDeclaredCount ==
  (Done /\ WellFormed /\ NoEmptyName) => Len(Exports) = scn.h.export_count

\* C23 witness: the header declares one export record, TailLen zero bytes
\* follow the table, and UE4DataTableParser returned two export records
C23_RecordReadFromTail ==
  /\ Done /\ WellFormed /\ NoEmptyName /\ scn.variant = "dt"
  /\ scn.h.export_count = 1 /\ scn.h.tail = TailLen /\ dt.header.export_count = 1
  /\ Len(Exports) = 2 /\ Exports[2].serial_size = [lo |-> 0, hi |-> 0]
  /\ ParseError = ""

\* export record i was emitted, and its class name is empty
EmittedWithoutClass(i) == Len(Exports) >= i /\ Exports[i].class_name = <<>>

\* C24: an export record with a non-negative class index gets an empty class
\* name and is still emitted; resolving the class never raises, also when a
\* negative class index points past the end of the import table (the class
\* name is then empty as well).
C24_ClassNameEmptyWithoutImport ==
  (Done /\ WellFormed /\ NoEmptyName) =>
    /\ ParseError = ""
    /\ \A i \in 1..Len(scn.h.exports) :
         (scn.h.exports[i].class_index >= 0
          \/ -scn.h.exports[i].class_index > Len(Imports)) => EmittedWithoutClass(i)

\* C24 witness: three export records, the second with class index -9 and
\* fewer than nine import records, the third with class index 3
C24_PastTheEndAndNonNegative ==
  /\ Done /\ WellFormed /\ NoEmptyName /\ Len(scn.h.exports) = 3 /\ Len(Imports) = 5
  /\ scn.h.exports[2].class_index = -9 /\ scn.h.exports[3].class_index = 3
  /\ Len(Exports) >= 3 /\ Exports[2].class_name = <<>> /\ Exports[3].class_name = <<>>
  /\ Exports[1].class_name # <<>>

\* the bytes a string of prefix L takes after the prefix
FS_need == IF fs.L >= 0 THEN fs.L ELSE 2 * (-fs.L)

\* the text the prefix announces: the first L - 1 bytes as characters, or the
\* first |L| - 1 little-endian 16-bit units
FS_text ==
  IF fs.L > 0 THEN [i \in 1..(fs.L - 1) |-> FS_byte(fs.kind, i)]
  ELSE [i \in 1..(-fs.L - 1) |-> FS_byte(fs.kind, 2 * i - 1) + 256 * FS_byte(fs.kind, 2 * i)]

\* the call returned what the prefix announces: 4 bytes and "" for L = 0,
\* else the bytes of the string consumed and its text returned
FS_asAnnounced ==
  /\ fs.ret.ok /\ fs.ret.pos = fs.pos + 4 + FS_need
  /\ fs.ret.val = IF fs.L = 0 THEN <<>> ELSE FS_text

\* the bytes of the string are in the buffer and are text in the encoding
FS_decodable ==
  /\ fs.m >= FS_need
  /\ fs.L > 0 => fs.kind \in {"ascii", "utf16"}
  /\ fs.L < -1 => fs.kind # "surrogate"

EnumCase == dt.pc = "done" /\ scn.variant = "dt" /\ scn.u.kind = "enum"

\* the value the Byte/Enum rule gives
EnumValue ==
  IF scn.u.x = 0 THEN IntV(9)
  ELSE StrV(sMyEnum \o sColonColon
            \o (IF scn.u.x = 1 THEN sItem ELSE sItem \o <<95>> \o DecNat(scn.u.x - 2)))

\* C26: a Byte/Enum value first reads the enum FName; when it is "None" the
\* value is one plain byte and no second FName is read, otherwise the member
\* FName is read and the value is "EnumType::Member"; for the type tags
\* ByteProperty and EnumProperty alike. (The property that follows is then
\* read from its own first byte.)
C26_ByteOrEnumValue ==
  EnumCase =>
    /\ ~dt.fallback /\ Len(dt.r_rows) = 1
    /\ dt.r_rows[1].v = << <<sIndexKey, IntV(0)>>, <<sRowNameKey, StrV(sFoo)>>,
                           <<sVec, EnumValue>>, <<sHp, IntV(5)>> >>

\* C26 witness: an EnumProperty whose enum name is "None" was decoded to a
\* string that starts with "None::", and the property after it was lost
C26_EnumNoneReadAsMember ==
  /\ EnumCase /\ scn.u.k = 1 /\ scn.u.x = 0 /\ Len(dt.r_rows) = 1
  /\ dt.r_rows[1].v[3][1] = sVec /\ dt.r_rows[1].v[3][2].t = "str"
  /\ SubSeq(dt.r_rows[1].v[3][2].v, 1, 6) = sNone \o sColonColon
  /\ \A j \in 1..Len(dt.r_rows[1].v) : dt.r_rows[1].v[j] # <<sHp, IntV(5)>>

\* the FName rule: the bare string for the instance number 0, the string
\* with the suffix _{N-1} for the instance number N > 0
ByFNameRule(name, num) == IF num > 0 THEN name \o <<95>> \o DecNat(num - 1) ELSE name

\* the record names a string of the name table, with a number that is not negative
Resolvable(idx, num) == 0 <= idx /\ idx < Len(scn.h.names) /\ num >= 0

\* C27: the names of import and export records, each stored as a name index
\* and an instance number, are resolved by the FName rule: the bare string
\* of the name table for the number 0, the string with the suffix _{N-1}
\* for the number N > 0.
C27_RecordNamesByFNameRule ==
  (Done /\ WellFormed /\ NoEmptyName) =>
    /\ \A i \in 1..Min(Len(Imports), Len(scn.h.imports)) :
         Resolvable(scn.h.imports[i].object_name, scn.h.imports[i].object_num)
         => Imports[i].object_name = ByFNameRule(NameOf(scn.h.imports[i].object_name),
                                                 scn.h.imports[i].object_num)
    /\ \A i \in 1..Min(Len(Exports), Len(scn.h.exports)) :
         Resolvable(scn.h.exports[i].object_name, scn.h.exports[i].object_num)
         => Exports[i].object_name = ByFNameRule(NameOf(scn.h.exports[i].object_name),
                                                 scn.h.exports[i].object_num)

\* C27 witness: the import record (Foo, 2) and the export record (Foo, 1)
\* were both resolved to the bare "Foo"
C27_NumberDropped ==
  /\ Done /\ WellFormed /\ NoEmptyName
  /\ Len(scn.h.imports) = 2 /\ Len(Imports) = 2
  /\ scn.h.imports[2].object_name = 1 /\ scn.h.imports[2].object_num = 2
  /\ Imports[2].object_name = sFoo
  /\ Len(scn.h.exports) = 3 /\ Len(Exports) >= 1
  /\ scn.h.exports[1].object_name = 1 /\ scn.h.exports[1].object_num = 1
  /\ Exports[1].object_name = sFoo

\* both header parsers have returned a header for the same buffer
BothHeadersRead ==
  /\ scn.variant = "pair" /\ scn.h.magicOk
  /\ dt.pc \notin {"idle", "start", "crashed"} /\ dt.parse_error = ""
  /\ ur.pc \notin {"idle", "start"} /\ ~ur.raised

\* the six table fields of the two headers are equal
SameTableFields ==
  /\ dt.header.name_count = ur.header.name_count
  /\ dt.header.name_offset = ur.header.name_offset
  /\ dt.header.import_count = ur.header.import_count
  /\ dt.header.import_offset = ur.header.import_offset
  /\ dt.header.export_count = ur.header.export_count
  /\ dt.header.export_offset = ur.header.export_offset

\* C28: for every header buffer with a valid tag, UAssetReader._read_header
\* and UE4DataTableParser._parse_header extract the same name count, name
\* offset, import count, import offset, export count and export offset,
\* whatever the file version.
C28_HeaderParsersAgree ==
  BothHeadersRead => SameTableFields

\* C28 witness: a package of file version 522 in the layout of UAssetReader:
\* the parsers agree on the names and disagree on the import table
C28_ImportOffsetsDiffer ==
  /\ BothHeadersRead /\ scn.h \in BothParserHeaders
  /\ scn.h.layout = "ur" /\ scn.h.ue4 = VER_LOCALIZATION_ID + 6
  /\ dt.header.name_count = 2 /\ ur.header.name_count = 2
  /\ dt.header.name_offset = ur.header.name_offset
  /\ ur.header.import_count = 1 /\ dt.header.import_count # 1
  /\ dt.header.import_offset # ur.header.import_offset

\* ---------------------------------------------------------------------
\* The file bridge: FFVIIRebirthContext of ap_file_bridge.py
\* ---------------------------------------------------------------------

\* the server sends at most MaxItems items, at most MaxBatch new ones a packet
MaxItems == 4
MaxBatch == 2

\* player_names of the context: player 1 is known, player 2 is not
sUnknown == <<85,110,107,110,111,119,110>>
sPlayerOne == <<80,49>>
player_names_get(player) == IF player = 1 THEN sPlayerOne ELSE sUnknown

\* a NetworkItem of the server: its item id and the sending player
NetworkItems == [item : {1, 2}, player : {1, 2}]

\* the batches of new items of one packet
Batches == UNION { [1..n -> NetworkItems] : n \in 0..MaxBatch }

\* items[i:] of Python for i >= 0
SliceFrom(items, i) ==
  IF i >= Len(items) THEN <<>> ELSE SubSeq(items, i + 1, Len(items))

\* the line handle_received_item appends for one item, without its timestamp
ReceivedLine(item) ==
  [item |-> sItem \o <<95>> \o DecNat(item.item), qty |-> 1,
   from |-> player_names_get(item.player)]

\* the lines appended by the loop of on_package over the items
ReceivedLines(items) == [i \in 1..Len(items) |-> ReceivedLine(items[i])]

\* FFVIIRebirthContext.__init__ with no files written; all is the list of
\* items the server has sent so far
BR_init ==
  [pc |-> "run", received_items_index |-> 0, file |-> <<>>, all |-> <<>>,
   status_file |-> "absent", raised |-> FALSE]

BridgeInit == Parked /\ fs = NoCall /\ nm = NoCall /\ br = BR_init

\* on_package("ReceivedItems", {"index": start_index, "items": items}): the
\* server has new items and sends them with their start index, or sends its
\* whole list with index 0
BR_ReceivedItems ==
  /\ br.pc = "run"
  /\ \E new \in Batches, whole \in BOOLEAN :
       /\ Len(br.all) + Len(new) <= MaxItems
       /\ LET all == br.all \o new
              start_index == IF whole THEN 0 ELSE Len(br.all)
              items == SliceFrom(all, start_index)
          IN br' = [br EXCEPT
                      !.all = all,
                      !.file = br.file \o
                               ReceivedLines(SliceFrom(items, br.received_items_index)),
                      !.received_items_index = start_index + Len(items),
                      !.raised = FALSE]
  /\ UNCHANGED <<pkg, fs, nm>>

\* on_package("Connected" or "ConnectionRefused"): update_status_file opens
\* the status file for writing and calls json.dumps(data, f, indent=2), which
\* takes one positional argument: the call raises, the file stays empty
BR_StatusPacket ==
  /\ br.pc = "run"
  /\ \E cmd \in {"Connected", "ConnectionRefused"} :
       br' = [br EXCEPT !.status_file = "empty", !.raised = TRUE]
  /\ UNCHANGED <<pkg, fs, nm>>

\* on_package with any other command changes nothing
BridgeNext == BR_ReceivedItems \/ BR_StatusPacket

BridgeSpec == BridgeInit /\ [][BridgeNext]_vars

\* C29: after every ReceivedItems packet the received-items file holds one
\* line for every item the server has sent, in the order of the server: none
\* is skipped and none is written twice.
C29_EveryItemWrittenOnce ==
  br.pc = "run" => br.file = ReceivedLines(br.all)

\* C29 witness: the server has sent three items in two packets and the file
\* holds the two items of the first packet only
C29_ThirdItemSkipped ==
  /\ br.pc = "run" /\ Len(br.all) = 3 /\ br.received_items_index = 3
  /\ br.file = ReceivedLines(SubSeq(br.all, 1, 2))

\* ---------------------------------------------------------------------
\* The name map of the shop randomizer: shop_inventory_randomizer.py
\* ---------------------------------------------------------------------

\* add_to_namemap is called with at most MaxNew new names on a NameMap of at
\* most MaxMap names
MaxNew == 2
MaxMap == 2

\* the names of the calls: empty, without a digit at the end, with a number
\* after the last underscore, with a number that starts with 0, with nothing
\* before the underscore, with a digit and no underscore, with two numbers
NM_names ==
  { <<>>, <<65>>, <<65,95,49>>, <<65,95,48,49>>, <<95,49>>, <<65,49>>,
    <<65,95,49,95,50>> }

\* the names a NameMap holds before the call
NM_old_names == { <<65>>, <<65,95,49>>, <<78>> }

\* str.isdigit() on an ASCII character
NM_isdigit(c) == c \in 48..57

\* the positions of an underscore where ^(.+)_([0-9]+)$ can split the name
NM_splits(name) ==
  { i \in 2..(Len(name) - 1) :
      /\ name[i] = 95
      /\ \A j \in (i + 1)..Len(name) : NM_isdigit(name[j]) }

\* the greedy (.+) takes the last of them
NM_split(name) == CHOOSE i \in NM_splits(name) : \A j \in NM_splits(name) : j <= i

\* get_fname_base(name)
get_fname_base(name) ==
  IF name = <<>> THEN name
  ELSE IF ~NM_isdigit(name[Len(name)]) THEN name
  ELSE IF NM_splits(name) = {} THEN name
  ELSE IF name[NM_split(name) + 1] # 48 THEN SubSeq(name, 1, NM_split(name) - 1)
  ELSE name

\* the set names_to_add built from new_names
names_to_add(new_names) ==
  { new_names[i] : i \in { j \in 1..Len(new_names) : new_names[j] # <<>> } }
  \cup { get_fname_base(new_names[i]) :
           i \in { j \in 1..Len(new_names) :
                     /\ new_names[j] # <<>>
                     /\ get_fname_base(new_names[j]) # <<>>
                     /\ get_fname_base(new_names[j]) # new_names[j] } }

\* a loop that appends every name of names_to_add
NM_fresh_always(name, existing) == TRUE

\* the test of the appending loop: name not in existing
NM_fresh(name, existing) == name \notin existing

\* the NameMaps the appending loop can leave: a Python set is iterated in an
\* order the program does not fix, so every order of todo is possible
RECURSIVE NM_append_all(_, _, _)
NM_append_all(map, existing, todo) ==
  IF todo = {} THEN { map }
  ELSE UNION { NM_append_all(IF NM_fresh(x, existing) THEN Append(map, x) ELSE map,
                             existing \cup {x}, todo \ {x}) : x \in todo }

\* the elements of a sequence
NM_set(seq) == { seq[i] : i \in 1..Len(seq) }

\* the calls: data with or without the key 'NameMap'
NM_calls ==
  [pc : {"call"}, has_map : BOOLEAN,
   NameMap : UNION { [1..n -> NM_old_names] : n \in 0..MaxMap },
   new_names : UNION { [1..n -> NM_names] : n \in 0..MaxNew },
   old : {<<>>}, ret : {FALSE}]

NameMapInit ==
  /\ Parked /\ fs = NoCall /\ br = NoCall
  /\ nm \in { c \in NM_calls : ~c.has_map => c.NameMap = <<>> }

\* add_to_namemap(data, new_names) when data has no key 'NameMap'
NM_NoNameMap ==
  /\ nm.pc = "call" /\ ~nm.has_map
  /\ nm' = [nm EXCEPT !.pc = "ret", !.ret = FALSE]
  /\ UNCHANGED <<pkg, fs, br>>

\* add_to_namemap(data, new_names) when data['NameMap'] is a list
NM_AddToNameMap ==
  /\ nm.pc = "call" /\ nm.has_map
  /\ \E map \in NM_append_all(nm.NameMap, NM_set(nm.NameMap), names_to_add(nm.new_names)) :
       nm' = [nm EXCEPT !.pc = "ret", !.ret = TRUE, !.old = nm.NameMap, !.NameMap = map]
  /\ UNCHANGED <<pkg, fs, br>>

NameMapNext == NM_NoNameMap \/ NM_AddToNameMap

NameMapSpec == NameMapInit /\ [][NameMapNext]_vars

\* how often a name stands in a list
NM_count(name, seq) == Cardinality({ i \in 1..Len(seq) : seq[i] = name })

\* the first list is the beginning of the second
NM_prefix(old, new) == Len(old) <= Len(new) /\ SubSeq(new, 1, Len(old)) = old

\* C30: after add_to_namemap(data, new_names) the NameMap of before the call
\* is a prefix of the NameMap, and no name stands in the NameMap more often
\* than once unless it stood there as often before; without a NameMap the
\* call returns False and leaves the data alone.
C30_NameMapExtended ==
  /\ (nm.pc = "ret" /\ nm.ret) =>
       /\ NM_prefix(nm.old, nm.NameMap)
       /\ \A x \in NM_set(nm.NameMap) :
            NM_count(x, nm.NameMap) > 1 => NM_count(x, nm.NameMap) = NM_count(x, nm.old)
  /\ (nm.pc = "ret" /\ ~nm.ret) => (~nm.has_map /\ nm.NameMap = <<>>)

\* C30 witness: the NameMap [A] with the new names A_1_2 and A: the name and
\* its base A_1 are appended, the name A that was there is not appended again
C30_BaseNameAppended ==
  /\ nm.pc = "ret" /\ nm.ret
  /\ nm.old = << <<65>> >>
  /\ nm.new_names = << <<65,95,49,95,50>>, <<65>> >>
  /\ nm.NameMap = << <<65>>, <<65,95,49>>, <<65,95,49,95,50>> >>

====
